---- MODULE Spec2Model ----
(***************************************************************************)
(* Compass agent (VeriTeknik/compass-agent): the jury pipeline of          *)
(* src/ai/consensus.ts (fan-out, similarity, consensus, reflection) and    *)
(* the retry loop of the Model Router client (src/ai/model-router.ts).     *)
(*                                                                         *)
(* Numbers.  JavaScript doubles are modelled in fixed point: a value v in  *)
(* [0,1] is the integer floor(v * Resolution) * Quantum, so One stands for *)
(* 1.0.  Quantum makes the divisions by 1, 2 and 3 (the pair counts and    *)
(* neighbour counts of up to three responses) exact, as they are, up to    *)
(* the last bit, in a double.                                              *)
(*                                                                         *)
(* Texts.  An answer is the bag of its symbols: the words of Vocab and a   *)
(* punctuation mark, which WordTokenizer drops.  All words are lower case. *)
(***************************************************************************)
EXTENDS Integers, Sequences, FiniteSets, TLC

\* ------------------------------------------------------------------ bounds

\* No word occurs more than MaxCount times in an answer.
MaxCount == 2

\* ------------------------------------------------------------- fixed point

Resolution == 10 ^ 4
Quantum == 2 * 3
One == Resolution * Quantum

\* Limb base of the two-limb products below (TLC integers are 32 bits wide).
Base == 10 ^ 4

\* <<hi, mid, lo>> limbs of a * b, for 0 <= a, b with a \div Base and b \div Base
\* small enough that no partial product overflows.
MulLimbs(a, b) ==
    LET a1 == a \div Base
        a0 == a % Base
        b1 == b \div Base
        b0 == b % Base
        lo == a0 * b0
        mid == a1 * b0 + a0 * b1 + (lo \div Base)
        hi == a1 * b1 + (mid \div Base)
    IN  <<hi, mid % Base, lo % Base>>

\* a * b <= c * d, without overflow.
LeqProd(a, b, c, d) ==
    LET x == MulLimbs(a, b)
        y == MulLimbs(c, d)
    IN  \/ x[1] < y[1]
        \/ x[1] = y[1] /\ x[2] < y[2]
        \/ x[1] = y[1] /\ x[2] = y[2] /\ x[3] <= y[3]

\* ------------------------------------------------------------------- texts

Vocab == {"x", "y"}
Punct == "."
Symbols == Vocab \cup {Punct}

\* The answers a model can give: the texts of up to MaxCount occurrences of
\* each word, and the text that is one punctuation mark.  The empty string is
\* the all-zero bag.
Texts ==
    {t \in [Symbols -> 0 .. MaxCount] :
        t[Punct] = 0 \/ (t[Punct] = 1 /\ \A w \in Vocab : t[w] = 0)}
EmptyText == [s \in Symbols |-> 0]

\* !text : the JavaScript falsiness of a string.
IsEmpty(t) == \A s \in Symbols : t[s] = 0

\* tokenizer.tokenize(text.toLowerCase()): the word counts; punctuation is no token.
Tokenize(t) == [w \in Vocab |-> t[w]]

RECURSIVE SumOver(_, _)
SumOver(S, f) ==
    IF S = {} THEN 0
    ELSE LET e == CHOOSE e \in S : TRUE IN f[e] + SumOver(S \ {e}, f)

NumTokens(tk) == SumOver(Vocab, tk)

\* ---------------------------------------------------------------- TF-IDF
\* natural's TfIdf over the two documents: tf is the raw count and
\* idf(t) = 1 + ln(2 / (1 + df(t))), that is 1 for a term of one document and
\* 1 + ln(2/3) = 0.5945... for a term of both.  The cosine only needs idf^2:
\* 1, and 0.35347... = IdfSharedSq[1] / IdfSharedSq[2] (relative error 7e-5).
IdfSharedSq == <<41, 116>>

\* IdfSq with idf(t) = ln(2 / df(t)): a term of both documents weighs nothing.
IdfSqPlainLog(w, tk1, tk2) ==
    IF tk1[w] > 0 /\ tk2[w] > 0 THEN 0 ELSE IdfSharedSq[2]

\* idf(t)^2 * IdfSharedSq[2], for a term t of document tk given the other document.
IdfSq(w, tk1, tk2) ==
    IF tk1[w] > 0 /\ tk2[w] > 0 THEN IdfSharedSq[1] ELSE IdfSharedSq[2]

\* dotProduct * IdfSharedSq[2]: only the terms of both documents contribute.
DotProduct(tk1, tk2) ==
    SumOver(Vocab, [w \in Vocab |-> IdfSq(w, tk1, tk2) * tk1[w] * tk2[w]])

\* magnitude^2 * IdfSharedSq[2] of the vector of tk given the other document.
MagnitudeSq(tk, other) ==
    SumOver(Vocab, [w \in Vocab |-> IdfSq(w, tk, other) * tk[w] * tk[w]])

\* floor(Resolution * num / sqrt(densq)) for 0 <= num^2 <= densq, densq > 0:
\* the largest k in lo .. hi with k^2 * densq <= Resolution^2 * num^2.
RECURSIVE CosineSearch(_, _, _, _)
CosineSearch(num, densq, lo, hi) ==
    IF lo >= hi THEN lo
    ELSE LET mid == (lo + hi + 1) \div 2
         IN  IF LeqProd(mid * mid, densq, Resolution * Resolution, num * num)
             THEN CosineSearch(num, densq, mid, hi)
             ELSE CosineSearch(num, densq, lo, mid - 1)

\* calculateSimilarity(text1, text2), in fixed point.
calculateSimilarityOf(text1, text2) ==
    IF IsEmpty(text1) \/ IsEmpty(text2) THEN 0
    ELSE LET tokens1 == Tokenize(text1)
             tokens2 == Tokenize(text2)
         IN  IF NumTokens(tokens1) = 0 \/ NumTokens(tokens2) = 0 THEN 0
             ELSE LET dot == DotProduct(tokens1, tokens2)
                      m1 == MagnitudeSq(tokens1, tokens2)
                      m2 == MagnitudeSq(tokens2, tokens1)
                  IN  IF m1 = 0 \/ m2 = 0 THEN 0
                      ELSE Quantum * CosineSearch(dot, m1 * m2, 0, Resolution)

\* The function above, tabulated once (the comparison makes the table explicit).
SimilarityTable ==
    LET table == [p \in Texts \X Texts |-> calculateSimilarityOf(p[1], p[2])]
    IN  IF table = table THEN table ELSE table

calculateSimilarity(text1, text2) == SimilarityTable[<<text1, text2>>]

\* ------------------------------------------------------- optional values
\* An optional field (dissent?, consensusAnswer?, error?) is a sequence of
\* length at most one: <<>> is undefined.
Undefined == <<>>
Some(v) == <<v>>
IsDefined(o) == Len(o) = 1
ValueOf(o) == o[1]

\* ---------------------------------------------------------------- consensus

THRESHOLDS == [UNANIMOUS |-> <<9, 10>>, SPLIT |-> <<6, 10>>]

\* score >= threshold, the threshold a fraction <<numerator, denominator>>.
AtLeast(score, threshold) == score * threshold[2] >= threshold[1] * One

\* Math.round(score * 100): the reported agreementScore, in hundredths.
RoundHundredths(score) == (score * 100 * 2 + One) \div (2 * One)

Infinity == One + 1

\* sum / count of a double sum and an integer count.
Divide(sum, count) == sum \div count

\* calculatePairwiseSimilarities(responses): the n x n matrix.
calculatePairwiseSimilarities(responses) ==
    [i \in 1 .. Len(responses) |->
        [j \in 1 .. Len(responses) |->
            IF i = j THEN One
            ELSE IF i < j
                 THEN calculateSimilarity(responses[i].answer, responses[j].answer)
                 ELSE calculateSimilarity(responses[j].answer, responses[i].answer)]]

RECURSIVE RowSum(_, _, _, _)
\* The inner loop of findDissenter and getMajorityAnswer: the sum of
\* similarities[i][j] over j in from .. n, j # i.
RowSum(similarities, i, from, n) ==
    IF from > n THEN 0
    ELSE (IF from # i THEN similarities[i][from] ELSE 0)
         + RowSum(similarities, i, from + 1, n)

\* avgSimilarity of response i: count > 0 ? sum / count : 0.
AvgSimilarity(similarities, i, n) ==
    LET count == n - 1
    IN  IF count > 0 THEN Divide(RowSum(similarities, i, 1, n), count) ELSE 0

\* avgSimilarity < minAvgSimilarity
DissenterBeats(avg, best) == avg < best

RECURSIVE DissenterLoop(_, _, _, _, _)
\* The outer loop of findDissenter from index i on; the result is dissenterIndex.
DissenterLoop(similarities, n, i, minAvgSimilarity, dissenterIndex) ==
    IF i > n THEN dissenterIndex
    ELSE LET avg == AvgSimilarity(similarities, i, n)
         IN  IF DissenterBeats(avg, minAvgSimilarity)
             THEN DissenterLoop(similarities, n, i + 1, avg, i)
             ELSE DissenterLoop(similarities, n, i + 1, minAvgSimilarity, dissenterIndex)

\* findDissenter(responses, similarities): null is Undefined.
findDissenter(responses, similarities) ==
    IF Len(responses) < 2 THEN Undefined
    ELSE LET dissenterIndex ==
                 DissenterLoop(similarities, Len(responses), 1, Infinity, 0)
         IN  IF dissenterIndex >= 1 THEN Some(responses[dissenterIndex]) ELSE Undefined

\* MajorityBeats with >= : the last of the maximisers wins.
MajorityBeatsOrTies(avg, best) == avg >= best

\* avgSimilarity > maxAvgSimilarity
MajorityBeats(avg, best) == avg > best

RECURSIVE MajorityLoop(_, _, _, _, _)
\* The outer loop of getMajorityAnswer from index i on; the result is majorityIndex.
MajorityLoop(similarities, n, i, maxAvgSimilarity, majorityIndex) ==
    IF i > n THEN majorityIndex
    ELSE LET avg == AvgSimilarity(similarities, i, n)
         IN  IF MajorityBeats(avg, maxAvgSimilarity)
             THEN MajorityLoop(similarities, n, i + 1, avg, i)
             ELSE MajorityLoop(similarities, n, i + 1, maxAvgSimilarity, majorityIndex)

\* getMajorityAnswer(responses, similarities)
getMajorityAnswer(responses, similarities) ==
    IF Len(responses) = 0 THEN EmptyText
    ELSE IF Len(responses) = 1 THEN responses[1].answer
    ELSE responses[MajorityLoop(similarities, Len(responses), 1, 0 - Infinity, 1)].answer

\* responses.filter(r => r.success && r.answer)
Usable(r) == r.success /\ ~IsEmpty(r.answer)

SuccessfulResponses(responses) == SelectSeq(responses, Usable)

RECURSIVE TotalSimilarity(_, _, _, _)
\* The double loop of calculateConsensus: the sum of similarities[i][j], i < j,
\* taken pair by pair from (i, j) on.
TotalSimilarity(similarities, n, i, j) ==
    IF i > n THEN 0
    ELSE IF j > n THEN TotalSimilarity(similarities, n, i + 1, i + 2)
    ELSE similarities[i][j] + TotalSimilarity(similarities, n, i, j + 1)

PairCount(n) == (n * (n - 1)) \div 2

\* The unrounded agreementScore of two or more successful responses.
RawAgreementScore(successfulResponses) ==
    LET n == Len(successfulResponses)
        similarities == calculatePairwiseSimilarities(successfulResponses)
    IN  IF PairCount(n) > 0
        THEN Divide(TotalSimilarity(similarities, n, 1, 2), PairCount(n))
        ELSE 0

\* The verdict of an agreement score.
VerdictOf(agreementScore) ==
    IF AtLeast(agreementScore, THRESHOLDS.UNANIMOUS) THEN "unanimous"
    ELSE IF AtLeast(agreementScore, THRESHOLDS.SPLIT) THEN "split"
    ELSE "no_consensus"

ConfidenceOf(verdict) ==
    CASE verdict = "unanimous" -> "high"
      [] verdict = "split" -> "medium"
      [] OTHER -> "low"

\* DissentOf with the test verdict !== 'unanimous'.
DissentUnlessUnanimous(verdict, successfulResponses, similarities) ==
    IF verdict # "unanimous" THEN findDissenter(successfulResponses, similarities)
    ELSE Undefined

\* verdict === 'split' ? findDissenter(...) ?? undefined : undefined
DissentOf(verdict, successfulResponses, similarities) ==
    IF verdict = "split" THEN findDissenter(successfulResponses, similarities)
    ELSE Undefined

\* The result of calculateConsensus when no response is usable.
NoSuccessResult(responses) ==
    [verdict |-> "no_consensus", confidence |-> "low", agreementScore |-> 0,
     responses |-> responses, consensusAnswer |-> Undefined, dissent |-> Undefined]

\* SoleSuccessResult without its consensusAnswer.
SoleSuccessWithoutAnswer(responses, successfulResponses) ==
    [verdict |-> "no_consensus", confidence |-> "low", agreementScore |-> 0,
     responses |-> responses, consensusAnswer |-> Undefined, dissent |-> Undefined]

\* SoleSuccessResult that takes one answer for full agreement.
SoleSuccessAsUnanimous(responses, successfulResponses) ==
    [verdict |-> "unanimous", confidence |-> "high", agreementScore |-> 100,
     responses |-> responses,
     consensusAnswer |-> Some(successfulResponses[1].answer), dissent |-> Undefined]

\* The result of calculateConsensus when exactly one response is usable.
SoleSuccessResult(responses, successfulResponses) ==
    [verdict |-> "no_consensus", confidence |-> "low", agreementScore |-> 0,
     responses |-> responses,
     consensusAnswer |-> Some(successfulResponses[1].answer), dissent |-> Undefined]

\* calculateConsensus(responses); agreementScore is in hundredths.
calculateConsensus(responses) ==
    LET successfulResponses == SuccessfulResponses(responses)
    IN  IF Len(successfulResponses) = 0 THEN NoSuccessResult(responses)
        ELSE IF Len(successfulResponses) = 1
        THEN SoleSuccessResult(responses, successfulResponses)
        ELSE LET similarities == calculatePairwiseSimilarities(successfulResponses)
                 agreementScore == RawAgreementScore(successfulResponses)
                 verdict == VerdictOf(agreementScore)
             IN  [verdict |-> verdict, confidence |-> ConfidenceOf(verdict),
                  agreementScore |-> RoundHundredths(agreementScore),
                  responses |-> responses,
                  consensusAnswer |->
                      Some(getMajorityAnswer(successfulResponses, similarities)),
                  dissent |-> DissentOf(verdict, successfulResponses, similarities)]

\* --------------------------------------------------------------- reflection

QUALITY_THRESHOLD == 70

\* shouldApplyReflection without the test of the verdict.
shouldApplyReflectionOnAnyVerdict(verdict, consensusAnswer) ==
    IF ~IsDefined(consensusAnswer) \/ IsEmpty(ValueOf(consensusAnswer)) THEN FALSE
    ELSE TRUE

\* shouldApplyReflection(verdict, consensusAnswer)
shouldApplyReflection(verdict, consensusAnswer) ==
    IF ~IsDefined(consensusAnswer) \/ IsEmpty(ValueOf(consensusAnswer)) THEN FALSE
    ELSE IF verdict = "no_consensus" THEN FALSE
    ELSE TRUE

\* What the reflection model's call can come to: the call throws, the content
\* is no JSON, or it parses to an object whose qualityScore is a number or not
\* and whose refinedAnswer is a text (the empty text when it is missing).
RefinedText == [s \in Symbols |-> IF s = Punct THEN 0 ELSE 1]
ReflectionReplies ==
    {[kind |-> "throw"], [kind |-> "unparsable"]}
    \cup [kind : {"json"},
          qualityScore : {Undefined, Some(QUALITY_THRESHOLD - 1),
                          Some(QUALITY_THRESHOLD)},
          refinedAnswer : {EmptyText, RefinedText}]

\* reflectOnConsensus whose catch block gives the score of a reply without a
\* numeric qualityScore.
reflectOnConsensusFailureAsFair(router, consensusAnswer, reply) ==
    IF ~router THEN [refinedAnswer |-> consensusAnswer, qualityScore |-> 0]
    ELSE IF reply.kind = "json"
    THEN [refinedAnswer |-> IF IsEmpty(reply.refinedAnswer) THEN consensusAnswer
                            ELSE reply.refinedAnswer,
          qualityScore |-> IF IsDefined(reply.qualityScore)
                           THEN ValueOf(reply.qualityScore) ELSE 50]
    ELSE [refinedAnswer |-> consensusAnswer, qualityScore |-> 50]

\* reflectOnConsensus(question, consensusAnswer, modelResponses): the
\* ReflectionResult, given whether getModelRouter() returns a router and what
\* the call comes to.
reflectOnConsensus(router, consensusAnswer, reply) ==
    IF ~router THEN [refinedAnswer |-> consensusAnswer, qualityScore |-> 0]
    ELSE IF reply.kind = "json"
    THEN [refinedAnswer |-> IF IsEmpty(reply.refinedAnswer) THEN consensusAnswer
                            ELSE reply.refinedAnswer,
          qualityScore |-> IF IsDefined(reply.qualityScore)
                           THEN ValueOf(reply.qualityScore) ELSE 50]
    ELSE [refinedAnswer |-> consensusAnswer, qualityScore |-> 0]

\* ApplyReflection with > for >=.
ApplyReflectionAboveThreshold(res, reflection) ==
    IF reflection.qualityScore > QUALITY_THRESHOLD
    THEN [res EXCEPT !.qualityScore = Some(reflection.qualityScore),
                     !.originalConsensusAnswer = res.consensusAnswer,
                     !.consensusAnswer = Some(reflection.refinedAnswer),
                     !.reflectionApplied = Some(TRUE)]
    ELSE [res EXCEPT !.qualityScore = Some(reflection.qualityScore)]

\* Step 5 of executeJuryQuery once the reflection has returned.
ApplyReflection(res, reflection) ==
    IF reflection.qualityScore >= QUALITY_THRESHOLD
    THEN [res EXCEPT !.qualityScore = Some(reflection.qualityScore),
                     !.originalConsensusAnswer = res.consensusAnswer,
                     !.consensusAnswer = Some(reflection.refinedAnswer),
                     !.reflectionApplied = Some(TRUE)]
    ELSE [res EXCEPT !.qualityScore = Some(reflection.qualityScore)]

\* ------------------------------------------------------------ model router

Retries == 2
RetryDelay == 1000

\* What one fetch of makeRequest can come to: an HTTP response with a status
\* (a 429 with or without a Retry-After header, a 200 whose body is JSON or
\* not), the abort of the timeout, or a network failure.
RetryAfterSeconds == 7
HttpOutcomes ==
    [kind : {"response"}, status : {200, 400, 401, 402, 500}, retryAfter : {Undefined}]
    \cup [kind : {"response"}, status : {429},
          retryAfter : {Undefined, Some(RetryAfterSeconds)}]
    \cup [kind : {"malformed", "abort", "network"}, status : {0}, retryAfter : {Undefined}]

\* makeRequest resolves for this outcome (response.ok and a JSON body).
RequestSucceeds(o) == o.kind = "response" /\ o.status = 200

\* The error makeRequest throws for any other outcome.
RequestError(o) ==
    IF o.kind = "response"
    THEN [name |-> CASE o.status = 429 -> "RateLimitError"
                     [] o.status = 402 -> "BudgetExceededError"
                     [] o.status = 401 -> "AuthenticationError"
                     [] OTHER -> "ModelRouterError",
          statusCode |-> o.status,
          retryAfterSeconds |-> IF o.status = 429 THEN o.retryAfter ELSE Undefined]
    ELSE [name |-> CASE o.kind = "abort" -> "AbortError"
                     [] o.kind = "malformed" -> "SyntaxError"
                     [] OTHER -> "TypeError",
          statusCode |-> 0, retryAfterSeconds |-> Undefined]

\* IsAuthenticationError that takes the budget error for final as well.
IsAuthenticationOrBudgetError(e) ==
    e.name \in {"AuthenticationError", "BudgetExceededError"}

\* error instanceof AuthenticationError: chat rethrows it at once.
IsAuthenticationError(e) == e.name = "AuthenticationError"

\* The names of the errors chat can reject with.
ErrorNames ==
    {"RateLimitError", "BudgetExceededError", "AuthenticationError",
     "ModelRouterError", "AbortError", "SyntaxError", "TypeError"}

\* The rejections a jury call is run with: the jury reads only the message of
\* the error it catches, so one error chat does not retry and one it does
\* stand for the rest.
RejectionNames == {"AuthenticationError", "AbortError"}

\* --------------------------------------------------------------- questions
\* A question is a sequence of segments, a segment a run of times copies of
\* a string: its characters are those of the runs, one after the other.  The
\* strings are chosen so that no blocked pattern and no sensitive topic spans
\* two segments.

Word(s) == [text |-> s, times |-> 1]
Run(s, n) == [text |-> s, times |-> n]

\* string.length
Length(q) ==
    LET RECURSIVE Total(_)
        Total(i) == IF i > Len(q) THEN 0
                    ELSE Len(q[i].text) * q[i].times + Total(i + 1)
    IN  Total(1)

\* String.prototype.toLowerCase on the strings of the segments.
LowerOf(s) ==
    CASE s = "WHAT" -> "what"
      [] s = "Why" -> "why"
      [] s = "JAILBREAK" -> "jailbreak"
      [] s = "DAN mode" -> "dan mode"
      [] s = "Self-Harm" -> "self-harm"
      [] OTHER -> s

toLowerCase(q) == [i \in 1 .. Len(q) |-> [q[i] EXCEPT !.text = LowerOf(@)]]

IsWhitespace(seg) == seg.text = " "

\* String.prototype.trim: the leading and trailing whitespace is dropped.
trim(q) ==
    LET inside == {i \in 1 .. Len(q) : ~IsWhitespace(q[i])}
    IN  IF inside = {} THEN <<>>
        ELSE LET first == CHOOSE i \in inside : \A j \in inside : i <= j
                 last == CHOOSE i \in inside : \A j \in inside : j <= i
             IN  SubSeq(q, first, last)

\* --------------------------------------------------------------- guardrails

\* The literals of BLOCKED_PATTERNS, an optional group written out both ways;
\* every pattern carries the flag i.
BLOCKED_PATTERNS ==
    {"ignore previous instructions", "disregard your instructions",
     "forget your previous instructions", "forget your instructions",
     "you are now", "pretend you are", "act as if you", "jailbreak", "DAN mode",
     "bypass your safety", "bypass safety", "override your instructions",
     "override instructions", "ignore all safety", "ignore safety",
     "system prompt", "reveal your instructions", "reveal your prompt",
     "reveal your system"}

SENSITIVE_TOPICS ==
    {"illegal activities", "weapons manufacturing", "explosives",
     "personal medical diagnosis", "legal advice for crimes", "self-harm",
     "suicide"}

MAX_INPUT_LENGTH == 10000

\* MatchesBlockedPattern without the flag i.
MatchesBlockedPatternCaseSensitive(q) ==
    \E i \in 1 .. Len(q), pattern \in BLOCKED_PATTERNS :
        q[i].times > 0 /\ q[i].text = pattern

\* pattern.test(question) for some pattern: a case-insensitive search.
MatchesBlockedPattern(q) ==
    \E i \in 1 .. Len(q), pattern \in BLOCKED_PATTERNS :
        q[i].times > 0 /\ LowerOf(q[i].text) = LowerOf(pattern)

\* SENSITIVE_TOPICS.find(topic => questionLower.includes(topic.toLowerCase()))
MatchesSensitiveTopic(q) ==
    \E i \in 1 .. Len(q), topic \in SENSITIVE_TOPICS :
        q[i].times > 0 /\ toLowerCase(q)[i].text = LowerOf(topic)

\* validateInput with the length test before the pattern test.
validateInputLengthFirst(q) ==
    IF Len(q) = 0 \/ Len(trim(q)) = 0
    THEN [allowed |-> FALSE, reason |-> "Input cannot be empty", riskLevel |-> "low"]
    ELSE IF Length(q) > MAX_INPUT_LENGTH
    THEN [allowed |-> FALSE, reason |-> "Input exceeds maximum length",
          riskLevel |-> "medium"]
    ELSE IF MatchesBlockedPattern(q)
    THEN [allowed |-> FALSE, reason |-> "Input contains potentially malicious patterns",
          riskLevel |-> "high"]
    ELSE IF MatchesSensitiveTopic(q)
    THEN [allowed |-> TRUE, reason |-> "Topic may require careful handling",
          riskLevel |-> "medium"]
    ELSE [allowed |-> TRUE, reason |-> "", riskLevel |-> "low"]

\* validateInput(question): the GuardrailResult.
validateInput(q) ==
    IF Len(q) = 0 \/ Len(trim(q)) = 0
    THEN [allowed |-> FALSE, reason |-> "Input cannot be empty", riskLevel |-> "low"]
    ELSE IF MatchesBlockedPattern(q)
    THEN [allowed |-> FALSE, reason |-> "Input contains potentially malicious patterns",
          riskLevel |-> "high"]
    ELSE IF Length(q) > MAX_INPUT_LENGTH
    THEN [allowed |-> FALSE, reason |-> "Input exceeds maximum length",
          riskLevel |-> "medium"]
    ELSE IF MatchesSensitiveTopic(q)
    THEN [allowed |-> TRUE, reason |-> "Topic may require careful handling",
          riskLevel |-> "medium"]
    ELSE [allowed |-> TRUE, reason |-> "", riskLevel |-> "low"]

\* The filler that brings a four-letter word to MAX_INPUT_LENGTH characters.
FillerLength == MAX_INPUT_LENGTH - 4

\* The questions of the requests: empty, blank, plain in either case and with
\* a leading blank, a sensitive topic, blocked patterns in either case, and
\* texts of MAX_INPUT_LENGTH characters and more (plain, blank and blocked).
PlainQuestion == <<Word("what")>>
Questions ==
    {<<>>, <<Word(" ")>>, PlainQuestion, <<Word("WHAT")>>,
     <<Word(" "), Word("what")>>, <<Word("Self-Harm")>>,
     <<Word("jailbreak")>>, <<Word("what"), Word(" "), Word("JAILBREAK")>>,
     <<Word("dan mode")>>,
     <<Word("what"), Run("a", FillerLength)>>,
     <<Word("what"), Run("a", FillerLength + 1)>>,
     <<Word("JAILBREAK"), Run("a", FillerLength)>>,
     <<Run(" ", MAX_INPUT_LENGTH + 1)>>}

\* ------------------------------------------------------------------ memory
\* A MemoryEntry is [id, question, consensusAnswer, verdict, agreementScore],
\* the score in hundredths; uuidv4() is a counter, and the timestamps are left
\* out.  A SessionMemory is [queries].

MAX_SESSION_QUERIES == 10

\* 0.8, in hundredths.
LONG_TERM_QUALITY_THRESHOLD == 80

\* The bound of longTermMemory in saveToLongTerm.
LongTermCapacity == 1000

SessionIds == {"s1", "s2"}

\* session.queries.push(fullEntry) and the shift that keeps the last
\* MAX_SESSION_QUERIES, with pop for shift.
SessionPushDropsNewest(queries, fullEntry) ==
    LET pushed == Append(queries, fullEntry)
    IN  IF Len(pushed) > MAX_SESSION_QUERIES
        THEN SubSeq(pushed, 1, Len(pushed) - 1) ELSE pushed

\* session.queries.push(fullEntry) and the shift that keeps the last
\* MAX_SESSION_QUERIES.
SessionPush(queries, fullEntry) ==
    LET pushed == Append(queries, fullEntry)
    IN  IF Len(pushed) > MAX_SESSION_QUERIES THEN Tail(pushed) ELSE pushed

\* IsHighQuality that looks at the verdict alone.
IsHighQualityByVerdictAlone(entry) == entry.verdict # "no_consensus"

\* The admission test of saveToLongTerm.
IsHighQuality(entry) ==
    /\ entry.agreementScore >= LONG_TERM_QUALITY_THRESHOLD
    /\ entry.verdict # "no_consensus"

\* longTermMemory.some(existing => existing.question.toLowerCase() ===
\* entry.question.toLowerCase())
isDuplicate(longTerm, entry) ==
    LET lowered == toLowerCase(entry.question)
    IN  \E i \in 1 .. Len(longTerm) :
            /\ Len(longTerm[i].question) = Len(lowered)
            /\ toLowerCase(longTerm[i].question) = lowered

\* LongTermPush that makes room by dropping the entry just pushed.
LongTermPushDropsNewest(longTerm, entry) ==
    LET pushed == Append(longTerm, entry)
    IN  IF Len(pushed) > LongTermCapacity
        THEN SubSeq(pushed, 1, Len(pushed) - 1) ELSE pushed

\* longTermMemory.push(entry) and the shift that bounds the store.
LongTermPush(longTerm, entry) ==
    LET pushed == Append(longTerm, entry)
    IN  IF Len(pushed) > LongTermCapacity THEN Tail(pushed) ELSE pushed

\* saveToLongTerm reaches its push for this entry.
Admits(longTerm, entry) == IsHighQuality(entry) /\ ~isDuplicate(longTerm, entry)

\* saveToLongTerm(entry): the new longTermMemory.
saveToLongTerm(longTerm, entry) ==
    IF Admits(longTerm, entry) THEN LongTermPush(longTerm, entry) ELSE longTerm

\* ----------------------------------------------------------------- strings
\* A string built from questions and answers is a sequence of pieces: a
\* literal or a question (a sequence of segments), or an answer (a text).

Lit(s) == [segs |-> <<Word(s)>>, text |-> EmptyText]
OfQuestion(q) == [segs |-> q, text |-> EmptyText]
OfAnswer(a) == [segs |-> <<>>, text |-> a]

\* !str : the JavaScript falsiness of a string of pieces.
IsEmptyString(str) ==
    \A i \in 1 .. Len(str) : Length(str[i].segs) = 0 /\ IsEmpty(str[i].text)

RECURSIVE Join(_, _)
\* strs.join(sep)
Join(strs, sep) ==
    IF Len(strs) = 0 THEN <<>>
    ELSE IF Len(strs) = 1 THEN strs[1]
    ELSE strs[1] \o <<sep>> \o Join(Tail(strs), sep)

\* -------------------------------------------------------- session context

CONTEXT_QUERIES_COUNT == 3

\* SliceLast that takes the first count entries.
SliceFirst(queries, count) ==
    IF Len(queries) <= count THEN queries ELSE SubSeq(queries, 1, count)

\* queries.slice(-count)
SliceLast(queries, count) ==
    IF Len(queries) <= count THEN queries
    ELSE SubSeq(queries, Len(queries) - count + 1, Len(queries))

\* `Q: ${q.question}\nA: ${q.consensusAnswer}`
FormatQuery(q) ==
    <<Lit("Q: "), OfQuestion(q.question), Lit("\nA: "), OfAnswer(q.consensusAnswer)>>

\* MemoryManager.getConversationContext() of the manager of session sid.
getConversationContext(store, sid) ==
    IF ~IsDefined(store[sid]) THEN <<>>
    ELSE LET queries == ValueOf(store[sid]).queries
             recentQueries == SliceLast(queries, CONTEXT_QUERIES_COUNT)
         IN  IF Len(queries) = 0 \/ Len(recentQueries) = 0 THEN <<>>
             ELSE <<Lit("Previous conversation context:\n")>>
                      \o Join([i \in 1 .. Len(recentQueries) |->
                                   FormatQuery(recentQueries[i])],
                              Lit("\n\n"))

\* MemoryManager.getSessionHistory() of the manager of session sid.
getSessionHistory(store, sid) ==
    IF IsDefined(store[sid]) THEN ValueOf(store[sid]).queries ELSE <<>>

\* enrichedContext after step 2 of executeJuryQuery, given the context
\* parameter and the conversation context of the session ("" without one).
EnrichedContext(callerContext, conversationContext) ==
    LET enrichedContext == IF IsDefined(callerContext) THEN ValueOf(callerContext)
                           ELSE <<>>
    IN  IF IsEmptyString(conversationContext) THEN enrichedContext
        ELSE IF IsEmptyString(enrichedContext) THEN conversationContext
        ELSE conversationContext \o <<Lit("\n\n")>> \o enrichedContext

\* enrichedContext || undefined
OrUndefined(str) == IF IsEmptyString(str) THEN Undefined ELSE Some(str)

\* --------------------------------------------------------------- lifecycle

AgentStates == {"NEW", "PROVISIONED", "ACTIVE", "DRAINING", "TERMINATED", "KILLED"}

VALID_TRANSITIONS ==
    [NEW |-> {"PROVISIONED"},
     PROVISIONED |-> {"ACTIVE"},
     ACTIVE |-> {"DRAINING", "KILLED"},
     DRAINING |-> {"TERMINATED", "ACTIVE"},
     TERMINATED |-> {},
     KILLED |-> {}]

\* new LifecycleManager(config)
NewLifecycleManager == [currentState |-> "NEW", history |-> <<>>]

\* canTransitionTo that lets every state go to ACTIVE.
canTransitionToActive(manager, targetState) ==
    targetState \in VALID_TRANSITIONS[manager.currentState] \cup {"ACTIVE"}

\* canTransitionTo(targetState)
canTransitionTo(manager, targetState) ==
    targetState \in VALID_TRANSITIONS[manager.currentState]

\* lifecycle?.isOperational(), falsy when getLifecycle() is null
isOperational(instance) ==
    IsDefined(instance) /\ ValueOf(instance).currentState = "ACTIVE"

\* --------------------------------------------------------------- heartbeat
\* HeartbeatEmitter.  A timer is known by its delay: intervalId is the timer
\* scheduleNextHeartbeat set last, pending or not (fired or cleared), and
\* orphans counts, per delay, the pending timers intervalId no longer names.

HeartbeatModes == {"EMERGENCY", "IDLE", "SLEEP"}

HEARTBEAT_INTERVALS == [EMERGENCY |-> 5000, IDLE |-> 30000, SLEEP |-> 900000]

maxConsecutiveFailures == 3

Delays == {HEARTBEAT_INTERVALS[mode] : mode \in HeartbeatModes}

NoTimers == [d \in Delays |-> 0]

\* new HeartbeatEmitter(config); collectorUrl: whether config names a collector
NewHeartbeatEmitter(collectorUrl) ==
    [mode |-> "IDLE",
     collectorUrl |-> collectorUrl,
     collectorHealthy |-> TRUE,
     intervalId |-> Undefined,
     isRunning |-> FALSE,
     consecutiveFailures |-> 0]

\* isHealthy()
isHealthy(emitter) == emitter.consecutiveFailures < maxConsecutiveFailures

\* clearTimeout(this.intervalId): the handle stays in the field
clearTimeout(p) ==
    [p EXCEPT !.emitter.intervalId =
                  IF IsDefined(@) THEN Some([ValueOf(@) EXCEPT !.pending = FALSE]) ELSE @]

\* scheduleNextHeartbeat(): a timer at the interval of the mode takes the
\* field; the timer the field named goes on pending.
scheduleNextHeartbeat(p) ==
    LET old == p.emitter.intervalId
    IN  [emitter |->
             [p.emitter EXCEPT
                 !.intervalId = Some([delay |-> HEARTBEAT_INTERVALS[p.emitter.mode],
                                      pending |-> TRUE])],
         orphans |->
             IF IsDefined(old) /\ ValueOf(old).pending
             THEN [p.orphans EXCEPT ![ValueOf(old).delay] = @ + 1]
             ELSE p.orphans]

\* setMode(mode)
setMode(p, mode) ==
    IF p.emitter.mode = mode THEN p
    ELSE LET q == [p EXCEPT !.emitter.mode = mode]
         IN  IF q.emitter.isRunning /\ IsDefined(q.emitter.intervalId)
             THEN scheduleNextHeartbeat(clearTimeout(q))
             ELSE q

\* stop()
stop(p) ==
    [p EXCEPT !.emitter.intervalId = Undefined, !.emitter.isRunning = FALSE]

\* shouldUseCollector(); elapsed: timeSinceCheck > collectorCheckInterval
shouldUseCollector(emitter, elapsed) ==
    IF ~emitter.collectorUrl THEN [emitter |-> emitter, use |-> FALSE]
    ELSE LET rechecked == IF ~emitter.collectorHealthy /\ elapsed
                          THEN [emitter EXCEPT !.collectorHealthy = TRUE]
                          ELSE emitter
         IN  [emitter |-> rechecked, use |-> rechecked.collectorHealthy]

\* emit() to its first await: the fetch that is out, to the collector or to
\* Station.
emit(emitter, elapsed) ==
    LET choice == IF emitter.collectorUrl THEN shouldUseCollector(emitter, elapsed)
                  ELSE [emitter |-> emitter, use |-> FALSE]
    IN  [emitter |-> choice.emitter,
         stage |-> IF choice.use THEN "collector" ELSE "station"]

\* The catch block of sendToStation with > for >=.
stationFailedLate(p) ==
    LET counted == [p EXCEPT !.emitter.consecutiveFailures = @ + 1]
    IN  IF /\ counted.emitter.consecutiveFailures > maxConsecutiveFailures
           /\ counted.emitter.mode # "EMERGENCY"
        THEN setMode(counted, "EMERGENCY")
        ELSE counted

\* The catch block of sendToStation.
stationFailed(p) ==
    LET counted == [p EXCEPT !.emitter.consecutiveFailures = @ + 1]
    IN  IF /\ counted.emitter.consecutiveFailures >= maxConsecutiveFailures
           /\ counted.emitter.mode # "EMERGENCY"
        THEN setMode(counted, "EMERGENCY")
        ELSE counted

\* The end of an emission: the timer callback schedules the next heartbeat,
\* the emit() of start() does not.
emissionEnded(p, origin) ==
    IF origin = "timer" /\ p.emitter.isRunning THEN scheduleNextHeartbeat(p) ELSE p

\* The handler main registers with lifecycle.onStateChange.
onStateChange(p, newState) ==
    IF newState = "DRAINING" THEN setMode(p, "EMERGENCY")
    ELSE IF newState = "ACTIVE" THEN setMode(p, "IDLE")
    ELSE p

\* transitionTo(targetState), for a valid target: the state, the history.
transitionTo(manager, targetState) ==
    [currentState |-> targetState,
     history |-> Append(manager.history,
                        [from |-> manager.currentState, to |-> targetState])]

\* ----------------------------------------------------------------- metrics
\* MetricsCollector.queryMetrics without the latencies.

NoQueryMetrics ==
    [totalQueries |-> 0, successfulQueries |-> 0, failedQueries |-> 0,
     consensusResults |-> [unanimous |-> 0, split |-> 0, no_consensus |-> 0],
     modelMetrics |-> <<>>]

\* The modelMetrics of a model: the index of its record, 0 if it has none.
ModelMetricsIndex(modelMetrics, model) ==
    IF \E i \in 1 .. Len(modelMetrics) : modelMetrics[i].model = model
    THEN CHOOSE i \in 1 .. Len(modelMetrics) : modelMetrics[i].model = model
    ELSE 0

\* The loop body of recordQuery over params.modelResults, for one result.
RecordModelResult(modelMetrics, r) ==
    LET known == ModelMetricsIndex(modelMetrics, r.model)
        all == IF known = 0
               THEN Append(modelMetrics,
                           [model |-> r.model, calls |-> 0, successes |-> 0,
                            failures |-> 0])
               ELSE modelMetrics
        at == IF known = 0 THEN Len(all) ELSE known
    IN  [all EXCEPT ![at] =
            [@ EXCEPT !.calls = @ + 1,
                      !.successes = IF r.success THEN @ + 1 ELSE @,
                      !.failures = IF r.success THEN @ ELSE @ + 1]]

RECURSIVE RecordModelResults(_, _, _)
RecordModelResults(modelMetrics, modelResults, from) ==
    IF from > Len(modelResults) THEN modelMetrics
    ELSE RecordModelResults(RecordModelResult(modelMetrics, modelResults[from]),
                            modelResults, from + 1)

\* recordQuery(params), params being [success, verdict, modelResults] with an
\* optional verdict.
recordQuery(m, params) ==
    [totalQueries |-> m.totalQueries + 1,
     successfulQueries |-> IF params.success THEN m.successfulQueries + 1
                           ELSE m.successfulQueries,
     failedQueries |-> IF params.success THEN m.failedQueries
                       ELSE m.failedQueries + 1,
     consensusResults |->
         IF IsDefined(params.verdict)
         THEN [m.consensusResults EXCEPT ![ValueOf(params.verdict)] = @ + 1]
         ELSE m.consensusResults,
     modelMetrics |-> RecordModelResults(m.modelMetrics, params.modelResults, 1)]

RECURSIVE RecordPerModel(_, _, _)
\* The loop of queryAllModels over the results: one recordQuery per model.
RecordPerModel(m, results, from) ==
    IF from > Len(results) THEN m
    ELSE RecordPerModel(
             recordQuery(m, [success |-> results[from].success,
                             verdict |-> Undefined,
                             modelResults |-> <<results[from]>>]),
             results, from + 1)

\* The recordQuery of step 7 of executeJuryQuery.
RecordJuryQuery(m, res, rs) ==
    recordQuery(m, [success |-> res.verdict # "no_consensus"
                                \/ \E i \in 1 .. Len(rs) : rs[i].success,
                    verdict |-> Some(res.verdict),
                    modelResults |-> <<>>])

\* ------------------------------------------------------------------- state

VARIABLES
    \* one executeJuryQuery
    jpc,              \* where the call is: "idle", "start", "fanout", "reflecting",
                      \* "done" (it returned result) or "threw" (it rejected)
    question,         \* params.question
    models,           \* params.models
    sessionId,        \* params.sessionId
    enableReflection, \* params.enableReflection
    enableMemory,     \* params.enableMemory
    enableGuardrails, \* params.enableGuardrails
    routerReady,      \* getModelRouter() is not null
    inputValidation,  \* the GuardrailResult of step 1, once validateInput has run
    memoryManager,    \* the session of the memoryManager of step 2, if it has one
    calls,            \* per model index: Undefined while its promise is pending,
                      \* else the ModelResponse it resolved with
    settleOrder,      \* the model indices in the order their promises settled
    issued,           \* the router.chat calls issued so far, by purpose and model
    responses,        \* what queryAllModels resolved with
    reflectionReply,  \* what the reflection call came to, once it has settled
    reflection,       \* the ReflectionResult, once reflectOnConsensus has returned
    result,           \* the ConsensusResult, once calculateConsensus has run
    jerror,           \* the error executeJuryQuery rejected with
    context,          \* params.context
    endpoint,         \* the caller: "direct", or the route of the HTTP request
    fanoutContext,    \* the context argument queryAllModels was called with
    memoryContextUsed, \* the local variable of that name
    steps,            \* the steps executeJuryQuery has taken, in their order
    \* the memory module
    sessionStore,       \* per session id: Undefined, or the SessionMemory
    memoryManagerCache, \* the session ids that have a cached MemoryManager
    longTermMemory,     \* the long-term store
    nextId,             \* the next value of uuidv4()
    appendLog,          \* per session id: the entries addToSession pushed since
                        \* the session was created or cleared (history)
    admitted,           \* the ids of the entries pushed to longTermMemory, in
                        \* order (history)
    \* the metrics collector
    metricsReady,     \* getMetrics() is not null
    queryMetrics,     \* MetricsCollector.queryMetrics
    \* one ModelRouterClient.chat
    rpc,              \* "idle", "request" (makeRequest awaited), "delay" (the
                      \* back-off awaited), "returned" or "threw"
    attempt,          \* the loop variable
    lastError,        \* the last error caught
    httpLog,          \* the outcomes of the HTTP attempts made so far
    delays,           \* the back-off delays awaited so far, in ms
    chatError,        \* the error chat rejected with
    \* the clock
    now,              \* Date.now(), in seconds
    \* one HTTP request to POST /query or POST /api/chat
    parseResult,      \* parseResult.success, once safeParse has run
    requestCount,     \* MetricsCollector.requestCount
    response,         \* the status and the error code of the answer, once sent
    \* the callers of the memory module
    call,             \* their last call: its name, its session, what it returned
    \* the lifecycle manager
    lifecycle,        \* getLifecycle(): its currentState and its history
    \* the heartbeat emitter
    heartbeat,        \* getHeartbeat(): the fields of the emitter
    orphans,          \* per delay: the pending timers that intervalId does not name
    emissions,        \* the emit() calls in flight: who called, which fetch is out
    health,           \* the last answer of GET /health: its status, the status in its body
    \* the reports to Station
    reports,          \* the reportTransition fetches in flight: the transition, the caller
    returned,         \* what the last transitionTo or kill returned, and how its report fared
    metricsEmitter,   \* MetricsCollector: isRunning, and whether an emit() is in flight
    \* main
    mpc,              \* where main is: the call it awaits, "ready", "exited"
    spc,              \* per shutdown handler running: the call it awaits
    exit,             \* the code of process.exit and the lifecycle state at that time
    \* the other requests
    holders           \* per session id: the other executeJuryQuery calls that
                      \* hold its memory manager, in flight and finished

paramVars == <<question, context, models, sessionId, enableReflection,
               enableMemory, enableGuardrails, routerReady, metricsReady, endpoint>>
juryVars == <<jpc, inputValidation, memoryManager, calls, settleOrder, issued,
              responses, reflectionReply, reflection, result, jerror>>
memoryVars == <<sessionStore, memoryManagerCache, longTermMemory, nextId, appendLog,
                admitted>>
routerVars == <<rpc, attempt, lastError, httpLog, delays, chatError>>
contextVars == <<fanoutContext, memoryContextUsed, steps>>
serverVars == <<parseResult, requestCount, response, call>>
stationVars == <<reports, returned, metricsEmitter>>
mainVars == <<mpc, spc, exit>>
agentVars == <<lifecycle, heartbeat, orphans, emissions, health, stationVars, mainVars>>
otherVars == <<now, serverVars, agentVars, holders>>
vars == <<paramVars, juryVars, memoryVars, queryMetrics, routerVars, contextVars,
          otherVars>>

\* ---------------------------------------------------- the memory operations

\* new MemoryManager(sessionId): the session is created if the store has none.
NewMemoryManager(store, sid) ==
    IF IsDefined(store[sid]) THEN store
    ELSE [store EXCEPT ![sid] = Some([queries |-> <<>>, lastAccessedAt |-> now])]

\* getMemoryManager that refreshes lastAccessedAt of the session it finds.
getMemoryManagerRefreshing(store, cache, sid) ==
    IF sid \in cache
    THEN [sessionStore |->
              IF IsDefined(store[sid])
              THEN [store EXCEPT ![sid] =
                       Some([ValueOf(store[sid]) EXCEPT !.lastAccessedAt = now])]
              ELSE store,
          memoryManagerCache |-> cache]
    ELSE [sessionStore |-> NewMemoryManager(store, sid),
          memoryManagerCache |-> cache \cup {sid}]

\* getMemoryManager(sessionId), for a session id: the store and the cache.
getMemoryManager(store, cache, sid) ==
    IF sid \in cache
    THEN [sessionStore |-> store, memoryManagerCache |-> cache]
    ELSE [sessionStore |-> NewMemoryManager(store, sid),
          memoryManagerCache |-> cache \cup {sid}]
\* addToSession that leaves the eviction of the oldest entry to a later step.
addToSessionDeferringEviction(sid, entry) ==
    IF ~IsDefined(sessionStore[sid])
    THEN UNCHANGED <<sessionStore, longTermMemory, nextId, appendLog, admitted>>
    ELSE LET fullEntry == [id |-> nextId] @@ entry
             session == ValueOf(sessionStore[sid])
         IN  /\ nextId' = nextId + 1
             /\ sessionStore' =
                    [sessionStore EXCEPT ![sid] =
                        Some([session EXCEPT
                                 !.queries = Append(@, fullEntry),
                                 !.lastAccessedAt = now])]
             /\ longTermMemory' = saveToLongTerm(longTermMemory, fullEntry)
             /\ appendLog' = [appendLog EXCEPT ![sid] = Append(@, fullEntry)]
             /\ admitted' = IF Admits(longTermMemory, fullEntry)
                            THEN Append(admitted, fullEntry.id) ELSE admitted

\* addToSession(entry) of the manager of session sid.
addToSession(sid, entry) ==
    IF ~IsDefined(sessionStore[sid])
    THEN UNCHANGED <<sessionStore, longTermMemory, nextId, appendLog, admitted>>
    ELSE LET fullEntry == [id |-> nextId] @@ entry
             session == ValueOf(sessionStore[sid])
         IN  /\ nextId' = nextId + 1
             /\ sessionStore' =
                    [sessionStore EXCEPT ![sid] =
                        Some([session EXCEPT
                                 !.queries = SessionPush(@, fullEntry),
                                 !.lastAccessedAt = now])]
             /\ longTermMemory' = saveToLongTerm(longTermMemory, fullEntry)
             /\ appendLog' = [appendLog EXCEPT ![sid] = Append(@, fullEntry)]
             /\ admitted' = IF Admits(longTermMemory, fullEntry)
                            THEN Append(admitted, fullEntry.id) ELSE admitted

\* The store before any request.
MemoryEmpty ==
    /\ sessionStore = [sid \in SessionIds |-> Undefined]
    /\ memoryManagerCache = {}
    /\ longTermMemory = <<>>
    /\ nextId = 1
    /\ appendLog = [sid \in SessionIds |-> <<>>]
    /\ admitted = <<>>

\* ---------------------------------------------------------- the jury query

\* The default of the models parameter of queryAllModels.
DefaultModels == <<"gpt-4o", "claude-3-5-sonnet-20241022", "gemini-1.5-flash">>

\* process.env.REFLECTION_MODEL || 'claude-3-5-sonnet-20241022'
ReflectionModel == "claude-3-5-sonnet-20241022"

\* The model lists of the requests: the default list, its prefixes (the empty
\* list too) and one list in another order.
ModelLists ==
    {SubSeq(DefaultModels, 1, n) : n \in 0 .. Len(DefaultModels)}
    \cup {<<DefaultModels[3], DefaultModels[1]>>}

\* What router.chat comes to for one model: a completion with a content (the
\* empty text when choices[0]?.message?.content is missing), or a rejection.
ChatOutcomes ==
    [kind : {"ok"}, content : Texts, error : {""}]
    \cup [kind : {"error"}, content : {EmptyText}, error : RejectionNames]

\* ToModelResponse whose catch branch puts the error message into the answer.
ToModelResponseErrorAsAnswer(model, o) ==
    IF o.kind = "ok"
    THEN [model |-> model, answer |-> o.content, success |-> TRUE, error |-> Undefined]
    ELSE [model |-> model, answer |-> [s \in Symbols |-> IF s = Punct THEN 1 ELSE 0],
          success |-> FALSE, error |-> Some(o.error)]

\* The async callback of models.map: the ModelResponse for a chat outcome.
ToModelResponse(model, o) ==
    IF o.kind = "ok"
    THEN [model |-> model, answer |-> o.content, success |-> TRUE, error |-> Undefined]
    ELSE [model |-> model, answer |-> EmptyText, success |-> FALSE,
          error |-> Some(o.error)]

\* PromiseAll that collects the values as the promises settle.
PromiseInSettleOrder(settled, order) ==
    [k \in 1 .. Len(order) |-> ValueOf(settled[order[k]])]

\* await Promise.all(promises): the values in the order of the promises.
PromiseAll(settled, order) == [i \in 1 .. Len(settled) |-> ValueOf(settled[i])]

\* The fields executeJuryQuery and the reflection add to a ConsensusResult.
UnsetFields ==
    [reflectionApplied |-> Undefined, qualityScore |-> Undefined,
     originalConsensusAnswer |-> Undefined]

\* The metadata executeJuryQuery tags the result with.
Metadata ==
    [guardrailsApplied |-> enableGuardrails, sessionId |-> sessionId,
     memoryContextUsed |-> memoryContextUsed]

\* new GuardrailError('Input blocked by guardrails', reason, riskLevel)
GuardrailError(validation) ==
    [name |-> "GuardrailError", message |-> "Input blocked by guardrails",
     reason |-> validation.reason, riskLevel |-> Some(validation.riskLevel)]

\* new Error(message), and the rejection of a call passed on.
PlainError(message) ==
    [name |-> "Error", message |-> message, reason |-> "", riskLevel |-> Undefined]

JuryIdle ==
    /\ jpc = "idle"
    /\ question = <<>>
    /\ models = <<>>
    /\ sessionId = Undefined
    /\ enableReflection = FALSE
    /\ enableMemory = FALSE
    /\ enableGuardrails = FALSE
    /\ routerReady = FALSE
    /\ inputValidation = Undefined
    /\ memoryManager = Undefined
    /\ calls = <<>>
    /\ settleOrder = <<>>
    /\ issued = <<>>
    /\ responses = <<>>
    /\ reflectionReply = Undefined
    /\ reflection = Undefined
    /\ result = Undefined
    /\ jerror = Undefined
    /\ context = Undefined
    /\ endpoint = "direct"
    /\ fanoutContext = Undefined
    /\ memoryContextUsed = FALSE
    /\ steps = <<>>

\* No HTTP request, the clock at its origin.
ServerIdle ==
    /\ now = 0
    /\ holders = [sid \in SessionIds |-> [inFlight |-> 0, finished |-> 0]]
    /\ parseResult = Undefined
    /\ requestCount = 0
    /\ response = Undefined
    /\ call = Undefined

MetricsIdle ==
    /\ metricsReady = FALSE
    /\ queryMetrics = NoQueryMetrics
\* JuryCalls of a loop that awaits each call before it issues the next: only
\* the first call is out at the first await.
JuryCallsOneByOne(ms) ==
    [i \in 1 .. (IF Len(ms) = 0 THEN 0 ELSE 1) |-> [purpose |-> "jury", model |-> ms[i]]]

\* The router.chat calls models.map issues, one per model and in their order.
JuryCalls(ms) == [i \in 1 .. Len(ms) |-> [purpose |-> "jury", model |-> ms[i]]]

\* The steps of executeJuryQuery to its first await, in the order of its
\* statements: the validation, the read of the session context, the dispatch
\* of the model calls.
EnterSteps(blocked, useMemory) ==
    (IF enableGuardrails THEN <<"validation">> ELSE <<>>)
        \o (IF blocked THEN <<>>
            ELSE (IF useMemory THEN <<"context">> ELSE <<>>)
                     \o (IF routerReady THEN <<"dispatch">> ELSE <<>>))

\* UsesMemory of an executeJuryQuery that takes step 2 before step 1.
UsesMemoryBeforeValidation(useMemory, blocked) == useMemory

\* Step 2 of executeJuryQuery is taken: the memory is enabled for a session,
\* and step 1 has not thrown.
UsesMemory(useMemory, blocked) == useMemory /\ ~blocked

\* executeJuryQuery up to its first await.  Step 1: the input validation, which
\* throws the GuardrailError.  Step 2: the memory manager of the session and
\* its conversation context.  Step 3, queryAllModels up to its await: no
\* router throws; else every model's call is issued by models.map before
\* anything is awaited.
EnterJuryQuery ==
    /\ LET validation == IF enableGuardrails THEN Some(validateInput(question))
                         ELSE Undefined
           blocked == IsDefined(validation) /\ ~ValueOf(validation).allowed
           useMemory == enableMemory /\ IsDefined(sessionId)
           memory == IF UsesMemory(useMemory, blocked)
                     THEN getMemoryManager(sessionStore, memoryManagerCache,
                                           ValueOf(sessionId))
                     ELSE [sessionStore |-> sessionStore,
                           memoryManagerCache |-> memoryManagerCache]
           conversationContext ==
               IF UsesMemory(useMemory, blocked)
               THEN getConversationContext(memory.sessionStore, ValueOf(sessionId))
               ELSE <<>>
       IN  /\ inputValidation' = validation
           /\ sessionStore' = memory.sessionStore
           /\ memoryManagerCache' = memory.memoryManagerCache
           /\ memoryManager' = IF UsesMemory(useMemory, blocked) THEN sessionId ELSE Undefined
           /\ memoryContextUsed' = ~IsEmptyString(conversationContext)
           /\ steps' = steps \o EnterSteps(blocked, useMemory)
           /\ IF blocked
              THEN /\ jpc' = "threw"
                   /\ jerror' = Some(GuardrailError(ValueOf(validation)))
                   /\ UNCHANGED <<calls, issued, fanoutContext>>
              ELSE /\ fanoutContext' =
                          OrUndefined(EnrichedContext(context, conversationContext))
                   /\ IF ~routerReady
                      THEN /\ jpc' = "threw"
                           /\ jerror' = Some(PlainError("Model Router not initialized"))
                           /\ UNCHANGED <<calls, issued>>
                      ELSE /\ jpc' = "fanout"
                           /\ jerror' = jerror
                           /\ calls' = [i \in 1 .. Len(models) |-> Undefined]
                           /\ issued' = issued \o JuryCalls(models)
    /\ UNCHANGED <<paramVars, settleOrder, responses, reflectionReply, reflection,
                   result, longTermMemory, nextId, appendLog, admitted, queryMetrics,
                   routerVars, now, agentVars, holders>>

\* executeJuryQuery called by a caller of the module.
StartQuery ==
    /\ jpc = "start"
    /\ endpoint = "direct"
    /\ EnterJuryQuery
    /\ UNCHANGED serverVars

\* SettleCall without the try/catch of the callback: a rejected router.chat
\* rejects Promise.all and with it executeJuryQuery.
SettleCallUncaught(i, o) ==
    /\ jpc = "fanout"
    /\ i \in 1 .. Len(models)
    /\ ~IsDefined(calls[i])
    /\ IF o.kind = "ok"
       THEN /\ calls' = [calls EXCEPT ![i] = Some(ToModelResponse(models[i], o))]
            /\ settleOrder' = Append(settleOrder, i)
            /\ UNCHANGED <<jpc, jerror>>
       ELSE /\ jpc' = "threw"
            /\ jerror' = Some(PlainError(o.error))
            /\ UNCHANGED <<calls, settleOrder>>
    /\ steps' = Append(steps, "settled")
    /\ UNCHANGED <<paramVars, inputValidation, memoryManager, issued, responses,
                   reflectionReply, reflection, result, memoryVars, queryMetrics,
                   routerVars, fanoutContext, memoryContextUsed, otherVars>>

\* The promise of model i settles: router.chat resolved or rejected, and the
\* callback's try or catch built the ModelResponse.
SettleCall(i, o) ==
    /\ jpc = "fanout"
    /\ i \in 1 .. Len(models)
    /\ ~IsDefined(calls[i])
    /\ calls' = [calls EXCEPT ![i] = Some(ToModelResponse(models[i], o))]
    /\ settleOrder' = Append(settleOrder, i)
    /\ steps' = Append(steps, "settled")
    /\ UNCHANGED <<paramVars, jpc, inputValidation, memoryManager, issued,
                   responses, reflectionReply, reflection, result, jerror,
                   memoryVars, queryMetrics, routerVars, fanoutContext,
                   memoryContextUsed, otherVars>>

\* Step 6 writes to the memory: enableMemory && memoryManager &&
\* result.consensusAnswer.
WritesMemory(res) ==
    /\ enableMemory
    /\ IsDefined(memoryManager)
    /\ IsDefined(res.consensusAnswer)
    /\ ~IsEmpty(ValueOf(res.consensusAnswer))

\* FinishSteps with the metric of the query recorded before the memory write.
FinishStepsMetricFirst(res) ==
    (IF metricsReady THEN <<"queryMetric">> ELSE <<>>)
        \o (IF WritesMemory(res) THEN <<"memoryWrite">> ELSE <<>>)
        \o <<"return">>

\* Steps 6 and 7 of executeJuryQuery and its return, in the order of its
\* statements.
FinishSteps(res) ==
    (IF WritesMemory(res) THEN <<"memoryWrite">> ELSE <<>>)
        \o (IF metricsReady THEN <<"queryMetric">> ELSE <<>>)
        \o <<"return">>

\* Steps 6 and 7 of executeJuryQuery and its return: the memory write, the
\* metric of the query (on the metrics qm the fan-out left), the result.
Finish(res, rs, qm) ==
    /\ result' = Some(res)
    /\ jpc' = "done"
    /\ IF WritesMemory(res)
       THEN addToSession(ValueOf(memoryManager),
                         [question |-> question,
                          consensusAnswer |-> ValueOf(res.consensusAnswer),
                          verdict |-> res.verdict,
                          agreementScore |-> res.agreementScore])
       ELSE UNCHANGED <<sessionStore, longTermMemory, nextId, appendLog, admitted>>
    /\ queryMetrics' = IF metricsReady THEN RecordJuryQuery(qm, res, rs) ELSE qm

\* Promise.all resolves; queryAllModels records the metric of each model and
\* returns; executeJuryQuery runs calculateConsensus and either issues the
\* reflection call and awaits it, or finishes.
Aggregate ==
    /\ jpc = "fanout"
    /\ \A i \in 1 .. Len(models) : IsDefined(calls[i])
    /\ LET rs == PromiseAll(calls, settleOrder)
           qm == IF metricsReady THEN RecordPerModel(queryMetrics, rs, 1)
                 ELSE queryMetrics
           res == calculateConsensus(rs) @@ UnsetFields @@ Metadata
       IN  /\ responses' = rs
           /\ IF enableReflection
                 /\ shouldApplyReflection(res.verdict, res.consensusAnswer)
              THEN /\ jpc' = "reflecting"
                   /\ result' = Some(res)
                   /\ issued' = Append(issued, [purpose |-> "reflection",
                                                model |-> ReflectionModel])
                   /\ queryMetrics' = qm
                   /\ steps' = steps \o <<"aggregation", "reflectionIssued">>
                   /\ UNCHANGED <<sessionStore, longTermMemory, nextId, appendLog,
                                  admitted>>
              ELSE /\ Finish(res, rs, qm)
                   /\ issued' = issued
                   /\ steps' = steps \o <<"aggregation">> \o FinishSteps(res)
    /\ UNCHANGED <<paramVars, inputValidation, memoryManager, calls, settleOrder,
                   reflectionReply, reflection, jerror, memoryManagerCache,
                   routerVars, fanoutContext, memoryContextUsed, otherVars>>

\* reflectOnConsensus returns (it never throws); the replacement rule; the
\* memory write, the metric and the return.
Reflect(reply) ==
    /\ jpc = "reflecting"
    /\ LET res == ValueOf(result)
           critique == reflectOnConsensus(routerReady, ValueOf(res.consensusAnswer),
                                          reply)
       IN  /\ reflectionReply' = Some(reply.kind)
           /\ reflection' = Some(critique)
           /\ Finish(ApplyReflection(res, critique), responses, queryMetrics)
           /\ steps' = steps \o <<"reflectionSettled">>
                             \o FinishSteps(ApplyReflection(res, critique))
    /\ UNCHANGED <<paramVars, inputValidation, memoryManager, calls, settleOrder,
                   issued, responses, jerror, memoryManagerCache, routerVars,
                   fanoutContext, memoryContextUsed, otherVars>>

\* -------------------------------------------------------- the HTTP requests

HttpEndpoints == {"/query", "/api/chat"}

\* question: z.string().min(1).max(10000), and message of the chat schema.
MaxQuestionLength == 10000
SchemaAccepts(q) == Length(q) >= 1 /\ Length(q) <= MaxQuestionLength

\* SchemaAccepts without the lower bound.
SchemaAcceptsEmpty(q) == Length(q) <= MaxQuestionLength

\* The context parameter of callers: none, the empty string, a text.
CallerContexts == {Undefined, Some(<<>>), Some(<<Lit("be brief")>>)}

\* The history of a chat request: none, empty, or two turns.
Histories ==
    {Undefined, Some(<<>>),
     Some(<<[role |-> "user", content |-> "hi"],
            [role |-> "assistant", content |-> "hello"]>>)}

\* The context POST /api/chat passes on: the turns of the history joined by
\* blank lines, undefined without a history or with an empty one.
ChatContext(history) ==
    IF ~IsDefined(history) THEN Undefined
    ELSE LET turns == ValueOf(history)
         IN  OrUndefined(
                 Join([i \in 1 .. Len(turns) |->
                          <<Lit(IF turns[i].role = "user" THEN "User: "
                                ELSE "Assistant: "),
                            Lit(turns[i].content)>>],
                      Lit("\n\n")))

\* The transitions that lead a manager from NEW to a state.
HistoryTo(state) ==
    LET up == <<[from |-> "NEW", to |-> "PROVISIONED"],
                [from |-> "PROVISIONED", to |-> "ACTIVE"]>>
    IN  CASE state = "NEW" -> <<>>
          [] state = "PROVISIONED" -> SubSeq(up, 1, 1)
          [] state = "ACTIVE" -> up
          [] state = "DRAINING" -> Append(up, [from |-> "ACTIVE", to |-> "DRAINING"])
          [] state = "TERMINATED" ->
                 up \o <<[from |-> "ACTIVE", to |-> "DRAINING"],
                         [from |-> "DRAINING", to |-> "TERMINATED"]>>
          [] OTHER -> Append(up, [from |-> "ACTIVE", to |-> "KILLED"])

\* A lifecycle manager that has come to a state.
LifecycleIn(state) == [currentState |-> state, history |-> HistoryTo(state)]

\* PostRequest that validates the request before the lifecycle check.
PostRequestValidatingFirst ==
    /\ jpc = "start"
    /\ endpoint \in HttpEndpoints
    /\ ~IsDefined(response)
    /\ IF ~SchemaAccepts(question)
       THEN /\ parseResult' = Some(FALSE)
            /\ response' = Some([status |-> 400, code |-> "VALIDATION_ERROR"])
            /\ jpc' = "idle"
            /\ UNCHANGED <<paramVars, inputValidation, memoryManager, calls,
                           settleOrder, issued, responses, reflectionReply,
                           reflection, result, jerror, memoryVars, queryMetrics,
                           routerVars, contextVars, requestCount, call, now, agentVars,
                           holders>>
       ELSE IF ~isOperational(lifecycle)
       THEN /\ parseResult' = Some(TRUE)
            /\ response' = Some([status |-> 503, code |-> "AGENT_NOT_OPERATIONAL"])
            /\ jpc' = "idle"
            /\ UNCHANGED <<paramVars, inputValidation, memoryManager, calls,
                           settleOrder, issued, responses, reflectionReply,
                           reflection, result, jerror, memoryVars, queryMetrics,
                           routerVars, contextVars, requestCount, call, now, agentVars,
                           holders>>
       ELSE /\ parseResult' = Some(TRUE)
            /\ requestCount' = IF metricsReady THEN requestCount + 1 ELSE requestCount
            /\ UNCHANGED <<response, call>>
            /\ EnterJuryQuery

\* The handler of POST /query and of POST /api/chat up to its await of
\* executeJuryQuery: the lifecycle check, the validation of the body, the
\* request counter, and executeJuryQuery up to its first await.
PostRequest ==
    /\ jpc = "start"
    /\ endpoint \in HttpEndpoints
    /\ ~IsDefined(response)
    /\ IF ~isOperational(lifecycle)
       THEN /\ response' = Some([status |-> 503, code |-> "AGENT_NOT_OPERATIONAL"])
            /\ jpc' = "idle"
            /\ UNCHANGED <<paramVars, inputValidation, memoryManager, calls,
                           settleOrder, issued, responses, reflectionReply,
                           reflection, result, jerror, memoryVars, queryMetrics,
                           routerVars, contextVars, parseResult, requestCount, call, now,
                           agentVars, holders>>
       ELSE IF ~SchemaAccepts(question)
       THEN /\ parseResult' = Some(FALSE)
            /\ response' = Some([status |-> 400, code |-> "VALIDATION_ERROR"])
            /\ jpc' = "idle"
            /\ UNCHANGED <<paramVars, inputValidation, memoryManager, calls,
                           settleOrder, issued, responses, reflectionReply,
                           reflection, result, jerror, memoryVars, queryMetrics,
                           routerVars, contextVars, requestCount, call, now, agentVars,
                           holders>>
       ELSE /\ parseResult' = Some(TRUE)
            /\ requestCount' = IF metricsReady THEN requestCount + 1 ELSE requestCount
            /\ UNCHANGED <<response, call>>
            /\ EnterJuryQuery

\* The rest of the handler: the verdict is sent, or next(error) takes the
\* rejection to errorHandler.
Respond ==
    /\ endpoint \in HttpEndpoints
    /\ ~IsDefined(response)
    /\ jpc \in {"done", "threw"}
    /\ response' =
           IF jpc = "done" THEN Some([status |-> 200, code |-> ""])
           ELSE IF ValueOf(jerror).name = "GuardrailError"
           THEN Some([status |-> 400, code |-> "GUARDRAIL_BLOCKED"])
           ELSE Some([status |-> 500, code |-> "INTERNAL_ERROR"])
    /\ UNCHANGED <<paramVars, juryVars, memoryVars, queryMetrics, routerVars,
                   contextVars, parseResult, requestCount, call, now, agentVars,
                   holders>>

\* The emitter as main constructs it, without a collector.
HeartbeatIdle ==
    /\ heartbeat = Some(NewHeartbeatEmitter(FALSE))
    /\ orphans = NoTimers
    /\ emissions = <<>>
    /\ health = Undefined

\* Nothing is out to Station, and no collector of metrics runs.
StationIdle ==
    /\ reports = <<>>
    /\ returned = Undefined
    /\ metricsEmitter = [isRunning |-> FALSE, emitting |-> FALSE]

\* main is not followed.
MainIdle ==
    /\ mpc = "idle"
    /\ spc = <<>>
    /\ exit = Undefined

\* No request is being handled and the manager is new.
AgentIdle ==
    /\ lifecycle = Some(NewLifecycleManager)
    /\ HeartbeatIdle
    /\ StationIdle
    /\ MainIdle

\* ------------------------------------------------------ the memory manager
\* The operations of the memory module as other callers of the process use
\* them, one call a step.

\* The entries callers append (addToSession takes any entry): questions that
\* differ by case, by a leading blank or altogether, with scores about the
\* threshold and every verdict.
EntryInputs ==
    {[question |-> PlainQuestion, consensusAnswer |-> RefinedText,
      verdict |-> "split", agreementScore |-> LONG_TERM_QUALITY_THRESHOLD],
     [question |-> <<Word("WHAT")>>, consensusAnswer |-> RefinedText,
      verdict |-> "unanimous", agreementScore |-> 100],
     [question |-> <<Word(" "), Word("what")>>, consensusAnswer |-> RefinedText,
      verdict |-> "split", agreementScore |-> LONG_TERM_QUALITY_THRESHOLD + 1],
     [question |-> <<Word("why")>>, consensusAnswer |-> RefinedText,
      verdict |-> "split", agreementScore |-> LONG_TERM_QUALITY_THRESHOLD - 1],
     [question |-> <<Word("Why")>>, consensusAnswer |-> RefinedText,
      verdict |-> "no_consensus", agreementScore |-> LONG_TERM_QUALITY_THRESHOLD + 5],
     [question |-> <<Word("how")>>, consensusAnswer |-> RefinedText,
      verdict |-> "unanimous", agreementScore |-> 95]}

\* The appends before this run: PrefilledLongTerm entries with questions of
\* their own were appended to session s1, which was cleared before the last
\* PrefilledSession of them.
PrefilledLongTerm == 999
PrefilledSession == 9

\* The runs append at most MaxAppends entries more.
MaxAppends == 2

PrefilledEntry(k) ==
    [id |-> k, question |-> <<Word("q"), Word(ToString(k))>>,
     consensusAnswer |-> RefinedText, verdict |-> "unanimous",
     agreementScore |-> 100]

PrefilledEntries(from, to) == [k \in 1 .. (to - from + 1) |-> PrefilledEntry(from + k - 1)]

\* What a call of the memory module leaves for its caller.
Called(name, sid, value) ==
    Some([name |-> name, sid |-> sid, value |-> value, at |-> now])

\* What a call of the memory module by a caller leaves alone besides the
\* memory.
callerVars == <<now, parseResult, requestCount, response, agentVars, holders>>

\* getMemoryManager(sessionId) by a caller.
GetMemoryManager(sid) ==
    /\ jpc = "idle"
    /\ LET memory == getMemoryManager(sessionStore, memoryManagerCache, sid)
       IN  /\ sessionStore' = memory.sessionStore
           /\ memoryManagerCache' = memory.memoryManagerCache
    /\ call' = Called("getMemoryManager", sid, <<>>)
    /\ UNCHANGED <<paramVars, juryVars, longTermMemory, nextId, appendLog, admitted,
                   queryMetrics, routerVars, contextVars, callerVars>>

\* manager.addToSession(entry) by a caller that holds the manager of sid.
AddToSession(sid, entry) ==
    /\ jpc = "idle"
    /\ sid \in memoryManagerCache
    /\ nextId <= PrefilledLongTerm + MaxAppends
    /\ addToSession(sid, entry)
    /\ call' = Called("addToSession", sid, <<>>)
    /\ UNCHANGED <<paramVars, juryVars, memoryManagerCache, queryMetrics, routerVars,
                   contextVars, callerVars>>

\* manager.clearSession() by a caller that holds the manager of sid.
ClearSession(sid) ==
    /\ jpc = "idle"
    /\ sid \in memoryManagerCache
    /\ IF IsDefined(sessionStore[sid])
       THEN /\ sessionStore' =
                   [sessionStore EXCEPT ![sid] =
                       Some([queries |-> <<>>, lastAccessedAt |-> now])]
            /\ appendLog' = [appendLog EXCEPT ![sid] = <<>>]
       ELSE UNCHANGED <<sessionStore, appendLog>>
    /\ call' = Called("clearSession", sid, <<>>)
    /\ UNCHANGED <<paramVars, juryVars, memoryManagerCache, longTermMemory, nextId,
                   admitted, queryMetrics, routerVars, contextVars, callerVars>>

\* manager.getConversationContext() by a caller that holds the manager of sid.
GetConversationContext(sid) ==
    /\ jpc = "idle"
    /\ sid \in memoryManagerCache
    /\ call' = Called("getConversationContext", sid,
                      getConversationContext(sessionStore, sid))
    /\ UNCHANGED <<paramVars, juryVars, memoryVars, queryMetrics, routerVars,
                   contextVars, callerVars>>

\* manager.getSessionHistory() by a caller that holds the manager of sid.
GetSessionHistory(sid) ==
    /\ jpc = "idle"
    /\ sid \in memoryManagerCache
    /\ call' = Called("getSessionHistory", sid, getSessionHistory(sessionStore, sid))
    /\ UNCHANGED <<paramVars, juryVars, memoryVars, queryMetrics, routerVars,
                   contextVars, callerVars>>

\* ------------------------------------------------------ ModelRouterClient.chat

RouterIdle ==
    /\ rpc = "idle"
    /\ attempt = 0
    /\ lastError = Undefined
    /\ httpLog = <<>>
    /\ delays = <<>>
    /\ chatError = Undefined

\* The back-off decision of the catch block: attempt < this.retries.
ShouldDelay(n) == n < Retries

\* LoopContinues with one pass too many.
LoopContinuesOnceMore(n) == n <= Retries + 1

\* The loop condition: attempt <= this.retries.
LoopContinues(n) == n <= Retries

\* One pass of the loop body: makeRequest settles with outcome o.
ChatAttempt(o) ==
    /\ rpc = "request"
    /\ httpLog' = Append(httpLog, o)
    /\ IF RequestSucceeds(o)
       THEN /\ rpc' = "returned"
            /\ UNCHANGED <<lastError, delays, chatError>>
       ELSE LET e == RequestError(o)
            IN  /\ lastError' = Some(e)
                /\ IF IsAuthenticationError(e)
                   THEN /\ rpc' = "threw"
                        /\ chatError' = Some(e)
                        /\ delays' = delays
                   ELSE IF ShouldDelay(attempt)
                   THEN /\ rpc' = "delay"
                        /\ delays' = Append(delays, RetryDelay * (attempt + 1))
                        /\ chatError' = chatError
                   ELSE IF LoopContinues(attempt + 1)
                   THEN /\ rpc' = "request"
                        /\ UNCHANGED <<delays, chatError>>
                   ELSE /\ rpc' = "threw"
                        /\ chatError' = Some(e)
                        /\ delays' = delays
    /\ attempt' = IF rpc' = "request" THEN attempt + 1 ELSE attempt
    /\ UNCHANGED <<paramVars, juryVars, memoryVars, queryMetrics, contextVars, otherVars>>

\* The back-off timer fires: attempt++, the loop condition, the next pass or
\* throw lastError.
DelayElapsed ==
    /\ rpc = "delay"
    /\ attempt' = attempt + 1
    /\ IF LoopContinues(attempt + 1)
       THEN rpc' = "request" /\ chatError' = chatError
       ELSE rpc' = "threw" /\ chatError' = lastError
    /\ UNCHANGED <<lastError, httpLog, delays, paramVars, juryVars, memoryVars,
                   queryMetrics, contextVars, otherVars>>

\* --------------------------------------------------------- specifications

\* The requests.  The fan-out over two and three models is run for the plain
\* question with the guardrails on and neither reflection, memory nor
\* metrics, and over two models with the reflection on and the memory and the
\* metrics as well; every question and every combination of the switches is
\* run over at most one model.
WideRequest ==
    /\ question = PlainQuestion
    /\ context = Undefined
    /\ enableGuardrails
    /\ ~enableReflection
    /\ ~enableMemory
    /\ sessionId = Undefined
    /\ ~metricsReady

TwoModelRequest ==
    /\ models = SubSeq(DefaultModels, 1, 2)
    /\ context = Undefined
    /\ question = PlainQuestion
    /\ enableGuardrails
    /\ enableReflection
    /\ routerReady

NarrowRequest ==
    /\ Len(models) <= 1
    /\ context \in CallerContexts

\* The calls of executeJuryQuery by a caller of the module.
DirectRequest ==
    /\ endpoint = "direct"
    /\ lifecycle = Some(LifecycleIn("ACTIVE"))
    /\ WideRequest \/ TwoModelRequest \/ NarrowRequest

\* The requests to POST /query and POST /api/chat: every question, in every
\* state of the lifecycle, answered by the first of the configured models.
HttpRequest ==
    /\ endpoint \in HttpEndpoints
    /\ models = SubSeq(DefaultModels, 1, 1)
    /\ context \in IF endpoint = "/api/chat"
                   THEN {ChatContext(history) : history \in Histories}
                   ELSE CallerContexts
    /\ ~enableReflection
    /\ metricsReady

\* One executeJuryQuery, from its call to its return.
Init ==
    /\ jpc = "start"
    /\ question \in Questions
    /\ models \in ModelLists
    /\ sessionId \in {Undefined, Some("s1")}
    /\ enableReflection \in BOOLEAN
    /\ enableMemory \in BOOLEAN
    /\ enableGuardrails \in BOOLEAN
    /\ routerReady \in BOOLEAN
    /\ metricsReady \in BOOLEAN
    /\ context \in CallerContexts \cup {ChatContext(history) : history \in Histories}
    /\ endpoint \in {"direct"} \cup HttpEndpoints
    /\ lifecycle \in {Some(LifecycleIn(state)) : state \in AgentStates}
    /\ HeartbeatIdle
    /\ StationIdle
    /\ MainIdle
    /\ DirectRequest \/ HttpRequest
    /\ fanoutContext = Undefined
    /\ memoryContextUsed = FALSE
    /\ steps = <<>>
    /\ ServerIdle
    /\ inputValidation = Undefined
    /\ memoryManager = Undefined
    /\ calls = <<>>
    /\ settleOrder = <<>>
    /\ issued = <<>>
    /\ responses = <<>>
    /\ reflectionReply = Undefined
    /\ reflection = Undefined
    /\ result = Undefined
    /\ jerror = Undefined
    /\ MemoryEmpty
    /\ queryMetrics = NoQueryMetrics
    /\ RouterIdle

Next ==
    \/ StartQuery
    \/ PostRequest
    \/ Respond
    \/ \E i \in 1 .. Len(DefaultModels), o \in ChatOutcomes : SettleCall(i, o)
    \/ Aggregate
    \/ \E reply \in ReflectionReplies : Reflect(reply)

Spec == Init /\ [][Next]_vars

\* One ModelRouterClient.chat, from its call to its return.  A fetch settles
\* (the timeout aborts it) and a timer fires: weak fairness of both steps.
InitRouter ==
    /\ JuryIdle
    /\ MemoryEmpty
    /\ MetricsIdle
    /\ ServerIdle
    /\ AgentIdle
    /\ rpc = "request"
    /\ attempt = 0
    /\ lastError = Undefined
    /\ httpLog = <<>>
    /\ delays = <<>>
    /\ chatError = Undefined

NextRouter ==
    \/ \E o \in HttpOutcomes : ChatAttempt(o)
    \/ DelayElapsed

SpecRouter == InitRouter /\ [][NextRouter]_vars /\ WF_vars(NextRouter)

\* The memory module under the calls of its users, after the appends above.
InitMemory ==
    /\ JuryIdle
    /\ MetricsIdle
    /\ RouterIdle
    /\ ServerIdle
    /\ AgentIdle
    /\ sessionStore =
           [sid \in SessionIds |->
               IF sid = "s1"
               THEN Some([queries |->
                              PrefilledEntries(PrefilledLongTerm - PrefilledSession + 1,
                                               PrefilledLongTerm),
                          lastAccessedAt |-> 0])
               ELSE Undefined]
    /\ memoryManagerCache = {"s1"}
    /\ longTermMemory = PrefilledEntries(1, PrefilledLongTerm)
    /\ nextId = PrefilledLongTerm + 1
    /\ appendLog =
           [sid \in SessionIds |->
               IF sid = "s1"
               THEN PrefilledEntries(PrefilledLongTerm - PrefilledSession + 1,
                                     PrefilledLongTerm)
               ELSE <<>>]
    /\ admitted = [k \in 1 .. PrefilledLongTerm |-> k]

NextMemory ==
    \/ \E sid \in SessionIds : GetMemoryManager(sid)
    \/ \E sid \in SessionIds, entry \in EntryInputs : AddToSession(sid, entry)
    \/ \E sid \in SessionIds : ClearSession(sid)

SpecMemory == InitMemory /\ [][NextMemory]_vars

\* ------------------------------------------- the session under its requests
\* One executeJuryQuery on a session that other requests and the periodic
\* cleanup use while its calls are in flight.

\* process.env.SESSION_TTL_SECONDS || '3600'
SESSION_TTL_SECONDS == 3600

\* The clock is followed for MaxTicks seconds past the time to live, and
\* MaxOthers other requests use the session of the request.
MaxTicks == 1
MaxOthers == 1

\* Time passes by the time to live, or by some seconds more.
ClockSteps == {SESSION_TTL_SECONDS + k : k \in 0 .. MaxTicks}

TimePasses(d) ==
    /\ now + d <= SESSION_TTL_SECONDS + MaxTicks
    /\ now' = now + d
    /\ UNCHANGED <<paramVars, juryVars, memoryVars, queryMetrics, routerVars,
                   contextVars, serverVars, agentVars, holders>>

\* IsExpired with >= for >.
IsExpiredAtTtl(session) == now - session.lastAccessedAt >= SESSION_TTL_SECONDS

\* ageMs > ttlSeconds * 1000, for a session
IsExpired(session) == now - session.lastAccessedAt > SESSION_TTL_SECONDS

\* The sessions cleanupExpiredSessions deletes.
ExpiredSessions ==
    {sid \in SessionIds :
        IsDefined(sessionStore[sid]) /\ IsExpired(ValueOf(sessionStore[sid]))}

\* The interval timer of createServer fires: cleanupExpiredSessions().
CleanupExpiredSessions ==
    /\ sessionStore' = [sid \in SessionIds |->
                           IF sid \in ExpiredSessions THEN Undefined
                           ELSE sessionStore[sid]]
    /\ memoryManagerCache' = memoryManagerCache \ ExpiredSessions
    /\ appendLog' = [sid \in SessionIds |->
                        IF sid \in ExpiredSessions THEN <<>> ELSE appendLog[sid]]
    /\ call' = Called("cleanupExpiredSessions", "", <<Cardinality(ExpiredSessions)>>)
    /\ UNCHANGED <<paramVars, juryVars, longTermMemory, nextId, admitted, queryMetrics,
                   routerVars, contextVars, callerVars>>

\* The entries the other requests record: one the long-term store admits,
\* one it does not.
OtherEntries ==
    {entry \in EntryInputs : entry.question \in {<<Word("why")>>, <<Word("how")>>}}

\* Another executeJuryQuery with session id sid runs to its first await: it
\* holds the memory manager of the session from then on.
OtherRequestEnters(sid) ==
    /\ SumOver(SessionIds, [s \in SessionIds |->
                                holders[s].inFlight + holders[s].finished])
           < MaxOthers
    /\ LET memory == getMemoryManager(sessionStore, memoryManagerCache, sid)
       IN  /\ sessionStore' = memory.sessionStore
           /\ memoryManagerCache' = memory.memoryManagerCache
    /\ holders' = [holders EXCEPT ![sid].inFlight = @ + 1]
    /\ UNCHANGED <<paramVars, juryVars, longTermMemory, nextId, appendLog, admitted,
                   queryMetrics, routerVars, contextVars, now, serverVars, agentVars>>

\* Step 6 of another executeJuryQuery that holds the manager of session sid.
OtherRequestRecords(sid, entry) ==
    /\ holders[sid].inFlight > 0
    /\ holders' = [holders EXCEPT ![sid].inFlight = @ - 1, ![sid].finished = @ + 1]
    /\ addToSession(sid, entry)
    /\ UNCHANGED <<paramVars, juryVars, memoryManagerCache, queryMetrics, routerVars,
                   contextVars, now, serverVars, agentVars>>

\* What a model call and the reflection call come to in these runs.
SessionOutcomes ==
    {o \in ChatOutcomes :
        \/ o.kind = "ok" /\ o.content = RefinedText
        \/ o.kind = "error" /\ o.error = "AbortError"}
SessionReplies ==
    {reply \in ReflectionReplies :
        \/ reply.kind = "throw"
        \/ /\ reply.kind = "json"
           /\ reply.refinedAnswer = [RefinedText EXCEPT !["x"] = 2]
           /\ IsDefined(reply.qualityScore)}

\* The sizes of session s1 when the request arrives.
SessionSizes == {0, 1, 3, 4, PrefilledSession, MAX_SESSION_QUERIES}

\* The request uses the memory of session s1.
MemoryRequest == enableMemory /\ sessionId = Some("s1")

\* Session s1 after size appends, the last of them at time 0; no session
\* when absent.
InitSession(absent, size) ==
    /\ sessionStore =
           [sid \in SessionIds |->
               IF sid = "s1" /\ ~absent
               THEN Some([queries |-> PrefilledEntries(1, size), lastAccessedAt |-> 0])
               ELSE Undefined]
    /\ memoryManagerCache = IF absent THEN {} ELSE {"s1"}
    /\ longTermMemory = PrefilledEntries(1, size)
    /\ nextId = size + 1
    /\ appendLog = [sid \in SessionIds |->
                       IF sid = "s1" /\ ~absent THEN PrefilledEntries(1, size)
                       ELSE <<>>]
    /\ admitted = [k \in 1 .. size |-> k]

InitSessions ==
    /\ jpc = "start"
    /\ question = PlainQuestion
    /\ models = SubSeq(DefaultModels, 1, 2)
    /\ context \in CallerContexts
    /\ sessionId \in {Undefined, Some("s1")}
    /\ enableReflection \in BOOLEAN
    /\ enableMemory \in BOOLEAN
    /\ enableGuardrails = TRUE
    /\ routerReady = TRUE
    /\ endpoint = "direct"
    /\ inputValidation = Undefined
    /\ memoryManager = Undefined
    /\ calls = <<>>
    /\ settleOrder = <<>>
    /\ issued = <<>>
    /\ responses = <<>>
    /\ reflectionReply = Undefined
    /\ reflection = Undefined
    /\ result = Undefined
    /\ jerror = Undefined
    /\ fanoutContext = Undefined
    /\ memoryContextUsed = FALSE
    /\ steps = <<>>
    /\ \E absent \in BOOLEAN, size \in SessionSizes :
           /\ absent => size = 0
           /\ ~MemoryRequest => ~absent /\ size = 4
           /\ enableReflection =>
                  context = Undefined /\ size \in {1, PrefilledSession, MAX_SESSION_QUERIES}
           /\ ~enableReflection => size <= 4
           /\ InitSession(absent, size)
    /\ MetricsIdle
    /\ RouterIdle
    /\ ServerIdle
    /\ AgentIdle

NextSessions ==
    \/ StartQuery
    \/ \E i \in 1 .. Len(DefaultModels), o \in SessionOutcomes : SettleCall(i, o)
    \/ Aggregate
    \/ \E reply \in SessionReplies : Reflect(reply)
    \/ \E d \in ClockSteps : TimePasses(d)
    \/ CleanupExpiredSessions
    \/ OtherRequestEnters("s1")
    \/ \E entry \in OtherEntries : OtherRequestRecords("s1", entry)

SpecSessions == InitSessions /\ [][NextSessions]_vars

\* ------------------------------------------------ the sessions and the clock
\* The callers of the memory module, the clock and the cleanup timer of
\* createServer.

\* The instants the clock is read at: the first seconds, and the same seconds
\* a time to live later.
ReaperInstants ==
    {k : k \in 0 .. MaxTicks} \cup {SESSION_TTL_SECONDS + k : k \in 0 .. MaxTicks}

\* The process after its start: no session, nothing stored.
InitReaper ==
    /\ JuryIdle
    /\ MetricsIdle
    /\ RouterIdle
    /\ ServerIdle
    /\ AgentIdle
    /\ MemoryEmpty

NextReaper ==
    \/ \E sid \in SessionIds : GetMemoryManager(sid)
    \/ \E sid \in SessionIds, entry \in OtherEntries :
           nextId <= MaxAppends /\ AddToSession(sid, entry)
    \/ \E sid \in SessionIds : ClearSession(sid)
    \/ \E sid \in SessionIds : GetConversationContext(sid)
    \/ \E sid \in SessionIds : GetSessionHistory(sid)
    \/ \E t \in ReaperInstants : t > now /\ TimePasses(t - now)
    \/ CleanupExpiredSessions

SpecReaper == InitReaper /\ [][NextReaper]_vars

\* ------------------------------------------- the lifecycle and the heartbeat
\* The LifecycleManager, the HeartbeatEmitter and GET /health of a process
\* whose singletons main has constructed, under the calls of their methods,
\* the timers and the fetches of the emitter.

\* The history is followed for MaxTransitions transitions, the failure counter
\* to MaxFailures, with at most MaxTimers timers pending and MaxInFlight
\* emissions in flight.
MaxTransitions == 4
MaxFailures == 3
MaxTimers == 2
MaxInFlight == 2

\* The emitter and the timers its methods act on.
Pap == [emitter |-> ValueOf(heartbeat), orphans |-> orphans]

\* The number of pending timers.
PendingTimers(p) ==
    SumOver(Delays, p.orphans)
        + (IF IsDefined(p.emitter.intervalId) /\ ValueOf(p.emitter.intervalId).pending
           THEN 1 ELSE 0)

\* The emitter and the timers become p, within the bound on the timers.
HeartbeatBecomes(p) ==
    /\ PendingTimers(p) <= MaxTimers
    /\ heartbeat' = Some(p.emitter)
    /\ orphans' = p.orphans

Without(s, i) == SubSeq(s, 1, i - 1) \o SubSeq(s, i + 1, Len(s))

\* lifecycle.transitionTo(targetState): an invalid target returns false; a
\* valid one changes the state, extends the history and runs the handler.
TransitionTo(targetState) ==
    /\ IF ~canTransitionTo(ValueOf(lifecycle), targetState)
       THEN UNCHANGED <<lifecycle, heartbeat, orphans>>
       ELSE /\ Len(ValueOf(lifecycle).history) < MaxTransitions
            /\ lifecycle' = Some(transitionTo(ValueOf(lifecycle), targetState))
            /\ HeartbeatBecomes(onStateChange(Pap, targetState))
    /\ UNCHANGED <<paramVars, juryVars, memoryVars, queryMetrics, routerVars,
                   contextVars, now, serverVars, holders, stationVars, mainVars,
                   emissions, health>>

\* lifecycle.kill()
Kill ==
    IF ValueOf(lifecycle).currentState # "ACTIVE" THEN UNCHANGED vars
    ELSE TransitionTo("KILLED")

\* heartbeat.start(): nothing when running; else a timer and the first emit().
HeartbeatStart ==
    /\ IF ValueOf(heartbeat).isRunning
       THEN UNCHANGED <<heartbeat, orphans, emissions>>
       ELSE /\ Len(emissions) < MaxInFlight
            /\ \E elapsed \in BOOLEAN :
                   LET started == scheduleNextHeartbeat(
                                      [Pap EXCEPT !.emitter.isRunning = TRUE])
                       out == emit(started.emitter, elapsed)
                   IN  /\ HeartbeatBecomes([started EXCEPT !.emitter = out.emitter])
                       /\ emissions' = Append(emissions, [origin |-> "start",
                                                          stage |-> out.stage])
    /\ UNCHANGED <<paramVars, juryVars, memoryVars, queryMetrics, routerVars,
                   contextVars, now, serverVars, holders, stationVars, mainVars,
                   lifecycle, health>>

\* heartbeat.stop()
HeartbeatStop ==
    /\ HeartbeatBecomes(stop(Pap))
    /\ UNCHANGED <<paramVars, juryVars, memoryVars, queryMetrics, routerVars,
                   contextVars, now, serverVars, holders, stationVars, mainVars,
                   lifecycle, emissions, health>>

\* A timer fires, the one intervalId names or another: its callback calls
\* emit().
TimerFires(delay, named) ==
    /\ Len(emissions) < MaxInFlight
    /\ IF named
       THEN /\ IsDefined(ValueOf(heartbeat).intervalId)
            /\ ValueOf(ValueOf(heartbeat).intervalId) = [delay |-> delay, pending |-> TRUE]
       ELSE orphans[delay] > 0
    /\ \E elapsed \in BOOLEAN :
           LET fired == IF named THEN clearTimeout(Pap)
                        ELSE [Pap EXCEPT !.orphans[delay] = @ - 1]
               out == emit(fired.emitter, elapsed)
           IN  /\ HeartbeatBecomes([fired EXCEPT !.emitter = out.emitter])
               /\ emissions' = Append(emissions, [origin |-> "timer", stage |-> out.stage])
    /\ UNCHANGED <<paramVars, juryVars, memoryVars, queryMetrics, routerVars,
                   contextVars, now, serverVars, holders, stationVars, mainVars,
                   lifecycle, health>>

\* The fetch of sendToCollector settles: on success the emission ends, on
\* failure emit() falls back to Station.
CollectorSettles(i, ok) ==
    /\ i \in 1 .. Len(emissions)
    /\ emissions[i].stage = "collector"
    /\ IF ok
       THEN /\ HeartbeatBecomes(
                   emissionEnded([Pap EXCEPT !.emitter.collectorHealthy = TRUE,
                                             !.emitter.consecutiveFailures = 0],
                                 emissions[i].origin))
            /\ emissions' = Without(emissions, i)
       ELSE /\ HeartbeatBecomes([Pap EXCEPT !.emitter.collectorHealthy = FALSE])
            /\ emissions' = [emissions EXCEPT ![i].stage = "station"]
    /\ UNCHANGED <<paramVars, juryVars, memoryVars, queryMetrics, routerVars,
                   contextVars, now, serverVars, holders, stationVars, mainVars,
                   lifecycle, health>>

\* The fetch of sendToStation settles and the emission ends.
StationSettles(i, ok) ==
    /\ i \in 1 .. Len(emissions)
    /\ emissions[i].stage = "station"
    /\ IF ok
       THEN HeartbeatBecomes(emissionEnded([Pap EXCEPT !.emitter.consecutiveFailures = 0],
                                           emissions[i].origin))
       ELSE /\ ValueOf(heartbeat).consecutiveFailures < MaxFailures
            /\ HeartbeatBecomes(emissionEnded(stationFailed(Pap), emissions[i].origin))
    /\ emissions' = Without(emissions, i)
    /\ UNCHANGED <<paramVars, juryVars, memoryVars, queryMetrics, routerVars,
                   contextVars, now, serverVars, holders, stationVars, mainVars,
                   lifecycle, health>>

\* GET /health that asks only the heartbeat.
GetHealthOfHeartbeat ==
    /\ health' = Some(IF isHealthy(ValueOf(heartbeat))
                      THEN [status |-> 200, body |-> "healthy"]
                      ELSE [status |-> 503, body |-> "unhealthy"])
    /\ UNCHANGED <<paramVars, juryVars, memoryVars, queryMetrics, routerVars,
                   contextVars, now, serverVars, holders, stationVars, mainVars,
                   lifecycle, heartbeat, orphans, emissions>>

\* GET /health
GetHealth ==
    /\ LET healthy == IF IsDefined(heartbeat) THEN isHealthy(ValueOf(heartbeat))
                      ELSE FALSE
           state == IF IsDefined(lifecycle) THEN ValueOf(lifecycle).currentState
                    ELSE "UNKNOWN"
       IN  health' = Some(IF ~healthy \/ state = "KILLED" \/ state = "TERMINATED"
                          THEN [status |-> 503, body |-> "unhealthy"]
                          ELSE [status |-> 200, body |-> "healthy"])
    /\ UNCHANGED <<paramVars, juryVars, memoryVars, queryMetrics, routerVars,
                   contextVars, now, serverVars, holders, stationVars, mainVars,
                   lifecycle, heartbeat, orphans, emissions>>

\* The singletons as main constructs them, with or without a collector.
InitPap ==
    /\ JuryIdle
    /\ MemoryEmpty
    /\ MetricsIdle
    /\ RouterIdle
    /\ ServerIdle
    /\ lifecycle = Some(NewLifecycleManager)
    /\ heartbeat \in {Some(NewHeartbeatEmitter(collectorUrl)) : collectorUrl \in BOOLEAN}
    /\ orphans = NoTimers
    /\ emissions = <<>>
    /\ health = Undefined
    /\ StationIdle
    /\ MainIdle

NextPap ==
    \/ \E targetState \in AgentStates : TransitionTo(targetState)
    \/ Kill
    \/ HeartbeatStart
    \/ HeartbeatStop
    \/ \E delay \in Delays, named \in BOOLEAN : TimerFires(delay, named)
    \/ \E i \in 1 .. MaxInFlight, ok \in BOOLEAN : CollectorSettles(i, ok)
    \/ \E i \in 1 .. MaxInFlight, ok \in BOOLEAN : StationSettles(i, ok)
    \/ GetHealth

SpecPap == InitPap /\ [][NextPap]_vars

\* --------------------------------------------------- the reports to Station
\* transitionTo and kill with their report to Station and the value they
\* return, the heartbeat emitter with its timers, and the interval of the
\* MetricsCollector, for a process whose singletons main has constructed.

\* At most MaxPosts reports are in flight.
MaxPosts == 1

\* What a fetch to Station comes to: a 2xx answer, another status, a network
\* error.
StationReplies == {"ok", "status", "error"}

\* The callers of transitionTo: a caller of the module, main, and the
\* shutdown handlers by the order of their signals.
Caller == [name |-> "caller", handler |-> 0]
MainCaller == [name |-> "main", handler |-> 0]
ShutdownCaller(k) == [name |-> "shutdown", handler |-> k]

\* transitionTo(targetState) for a valid target, to its await of
\* reportTransition: the state, the history, the handler, which finds the
\* emitter and its timers as p, and the fetch.
transitionToAwaited(p, targetState, caller) ==
    /\ Len(ValueOf(lifecycle).history) < MaxTransitions
    /\ lifecycle' = Some(transitionTo(ValueOf(lifecycle), targetState))
    /\ HeartbeatBecomes(onStateChange(p, targetState))
    /\ reports' = Append(reports, [from |-> ValueOf(lifecycle).currentState,
                                   to |-> targetState, caller |-> caller])

\* What transitionTo or kill returns for the call from state from to the
\* target to.
Returns(from, to, value, reply) ==
    Some([from |-> from, to |-> to, value |-> value, reply |-> reply])

\* TransitionToBegins of a transitionTo that notifies the handlers before it
\* tests the target.
TransitionToBeginsNotifyingFirst(targetState) ==
    /\ IF ~canTransitionTo(ValueOf(lifecycle), targetState)
       THEN /\ returned' = Returns(ValueOf(lifecycle).currentState, targetState,
                                   FALSE, "none")
            /\ HeartbeatBecomes(onStateChange(Pap, targetState))
            /\ UNCHANGED <<lifecycle, reports>>
       ELSE /\ Len(reports) < MaxPosts
            /\ transitionToAwaited(Pap, targetState, Caller)
            /\ returned' = returned
    /\ UNCHANGED <<paramVars, juryVars, memoryVars, queryMetrics, routerVars,
                   contextVars, now, serverVars, holders, emissions, health,
                   metricsEmitter, mainVars>>

\* lifecycle.transitionTo(targetState) by a caller, to its await or, for an
\* invalid target, to its return of false.
TransitionToBegins(targetState) ==
    /\ IF ~canTransitionTo(ValueOf(lifecycle), targetState)
       THEN /\ returned' = Returns(ValueOf(lifecycle).currentState, targetState,
                                   FALSE, "none")
            /\ UNCHANGED <<lifecycle, heartbeat, orphans, reports>>
       ELSE /\ Len(reports) < MaxPosts
            /\ transitionToAwaited(Pap, targetState, Caller)
            /\ returned' = returned
    /\ UNCHANGED <<paramVars, juryVars, memoryVars, queryMetrics, routerVars,
                   contextVars, now, serverVars, holders, emissions, health,
                   metricsEmitter, mainVars>>

\* lifecycle.kill() by a caller, to its await or its return of false.
KillBegins ==
    IF ValueOf(lifecycle).currentState # "ACTIVE"
    THEN /\ returned' = Returns(ValueOf(lifecycle).currentState, "KILLED",
                                FALSE, "none")
         /\ UNCHANGED <<paramVars, juryVars, memoryVars, queryMetrics, routerVars,
                        contextVars, now, serverVars, holders, lifecycle, heartbeat,
                        orphans, emissions, health, reports, metricsEmitter,
                        mainVars>>
    ELSE TransitionToBegins("KILLED")

\* ReportSettles of a reportTransition that lets the failure of its fetch
\* through: transitionTo returns true only for a 2xx answer.
ReportSettlesUncaught(i, reply) ==
    /\ i \in 1 .. Len(reports)
    /\ reports[i].caller = Caller
    /\ reports' = Without(reports, i)
    /\ returned' = Returns(reports[i].from, reports[i].to, reply = "ok", reply)
    /\ UNCHANGED <<paramVars, juryVars, memoryVars, queryMetrics, routerVars,
                   contextVars, now, serverVars, holders, lifecycle, heartbeat,
                   orphans, emissions, health, metricsEmitter, mainVars>>

\* The fetch of reportTransition settles: whatever it comes to, transitionTo
\* returns true.
ReportSettles(i, reply) ==
    /\ i \in 1 .. Len(reports)
    /\ reports[i].caller = Caller
    /\ reports' = Without(reports, i)
    /\ returned' = Returns(reports[i].from, reports[i].to, TRUE, reply)
    /\ UNCHANGED <<paramVars, juryVars, memoryVars, queryMetrics, routerVars,
                   contextVars, now, serverVars, holders, lifecycle, heartbeat,
                   orphans, emissions, health, metricsEmitter, mainVars>>

\* The telemetry starts as main starts it: heartbeat.start(), which does
\* nothing when the emitter is running, and metrics.start(), which sets the
\* interval of the collector, in one step.
TelemetryStart ==
    /\ IF ValueOf(heartbeat).isRunning
       THEN UNCHANGED <<heartbeat, orphans, emissions>>
       ELSE /\ Len(emissions) < MaxInFlight
            /\ \E elapsed \in BOOLEAN :
                   LET started == scheduleNextHeartbeat(
                                      [Pap EXCEPT !.emitter.isRunning = TRUE])
                       out == emit(started.emitter, elapsed)
                   IN  /\ HeartbeatBecomes([started EXCEPT !.emitter = out.emitter])
                       /\ emissions' = Append(emissions, [origin |-> "start",
                                                          stage |-> out.stage])
    /\ metricsEmitter' = [metricsEmitter EXCEPT !.isRunning = TRUE]
    /\ UNCHANGED <<paramVars, juryVars, memoryVars, queryMetrics, routerVars,
                   contextVars, now, serverVars, holders, lifecycle, health,
                   reports, returned, mainVars>>

\* The interval of the collector fires: its callback calls emit(), which
\* awaits its fetch.  The collector is followed through one emission at a
\* time.
MetricsIntervalFires ==
    /\ metricsEmitter.isRunning
    /\ ~metricsEmitter.emitting
    /\ metricsEmitter' = [metricsEmitter EXCEPT !.emitting = TRUE]
    /\ UNCHANGED <<paramVars, juryVars, memoryVars, queryMetrics, routerVars,
                   contextVars, now, serverVars, holders, lifecycle, heartbeat,
                   orphans, emissions, health, reports, returned, mainVars>>

\* The fetch of MetricsCollector.emit settles: emit() throws on a network
\* error and on a status that is not ok, and the callback catches it.
MetricsSettles(reply) ==
    /\ metricsEmitter.emitting
    /\ metricsEmitter' = [metricsEmitter EXCEPT !.emitting = FALSE]
    /\ UNCHANGED <<paramVars, juryVars, memoryVars, queryMetrics, routerVars,
                   contextVars, now, serverVars, holders, lifecycle, heartbeat,
                   orphans, emissions, health, reports, returned, mainVars>>

\* The valid successors of the current state.
ValidTargets ==
    {targetState \in AgentStates : canTransitionTo(ValueOf(lifecycle), targetState)}

\* The singletons as main constructs them, without a collector.
InitStation ==
    /\ JuryIdle
    /\ MemoryEmpty
    /\ MetricsIdle
    /\ RouterIdle
    /\ ServerIdle
    /\ AgentIdle

NextStation ==
    \/ \E targetState \in ValidTargets : TransitionToBegins(targetState)
    \/ \E i \in 1 .. MaxPosts, reply \in StationReplies : ReportSettles(i, reply)
    \/ TelemetryStart
    \/ \E delay \in Delays, named \in BOOLEAN : TimerFires(delay, named)
    \/ \E i \in 1 .. MaxInFlight, ok \in BOOLEAN : StationSettles(i, ok)
    \/ MetricsIntervalFires
    \/ \E reply \in StationReplies : MetricsSettles(reply)

SpecStation == InitStation /\ [][NextStation]_vars

\* The lifecycle manager under the calls of transitionTo and of kill, with
\* every target in every state.
NextLifecycle ==
    \/ \E targetState \in AgentStates : TransitionToBegins(targetState)
    \/ KillBegins
    \/ \E i \in 1 .. MaxPosts, reply \in StationReplies : ReportSettles(i, reply)

SpecLifecycle == InitStation /\ [][NextLifecycle]_vars
\* --------------------------------------------------------------------- main
\* main from its first await to process.exit, with the signals and their
\* shutdown handlers, the reports to Station, the listen of the server and
\* the timers and fetches of the emitter.

\* The signals are followed to MaxSignals of them.
MaxSignals == 2

\* process.exit(code), in the lifecycle state as the step leaves it.
ProcessExit(code, instance) ==
    exit' = Some([code |-> code, state |-> ValueOf(instance).currentState])

\* main to its first await: the singletons are constructed, the handlers
\* registered, and lifecycle.initialize() awaits its report.
MainInitializes ==
    /\ mpc = "start"
    /\ IF canTransitionTo(ValueOf(lifecycle), "PROVISIONED")
       THEN /\ transitionToAwaited(Pap, "PROVISIONED", MainCaller)
            /\ mpc' = "initialize"
            /\ returned' = returned
       ELSE /\ returned' = Returns(ValueOf(lifecycle).currentState, "PROVISIONED",
                                   FALSE, "none")
            /\ mpc' = "startServer"
            /\ UNCHANGED <<lifecycle, heartbeat, orphans, reports>>
    /\ UNCHANGED <<paramVars, juryVars, memoryVars, queryMetrics, routerVars,
                   contextVars, now, serverVars, holders, emissions, health,
                   metricsEmitter, spc, exit>>

\* The listen of startServer settles.  On success main starts the emitter
\* and the collector and calls lifecycle.activate(); on an error the catch
\* block calls lifecycle.kill() and, when that has returned, process.exit(1).
ServerListens(ok) ==
    /\ mpc = "startServer"
    /\ exit = Undefined
    /\ IF ok
       THEN LET started == scheduleNextHeartbeat(
                               [Pap EXCEPT !.emitter.isRunning = TRUE])
                out == emit(started.emitter, FALSE)
                running == IF ValueOf(heartbeat).isRunning THEN Pap
                           ELSE [started EXCEPT !.emitter = out.emitter]
            IN  /\ emissions' =
                       IF ValueOf(heartbeat).isRunning THEN emissions
                       ELSE Append(emissions, [origin |-> "start",
                                               stage |-> out.stage])
                /\ metricsEmitter' = [metricsEmitter EXCEPT !.isRunning = TRUE]
                /\ exit' = exit
                /\ IF canTransitionTo(ValueOf(lifecycle), "ACTIVE")
                   THEN /\ transitionToAwaited(running, "ACTIVE", MainCaller)
                        /\ mpc' = "activate"
                        /\ returned' = returned
                   ELSE /\ returned' = Returns(ValueOf(lifecycle).currentState,
                                               "ACTIVE", FALSE, "none")
                        /\ mpc' = "ready"
                        /\ HeartbeatBecomes(running)
                        /\ UNCHANGED <<lifecycle, reports>>
       ELSE /\ UNCHANGED <<emissions, metricsEmitter>>
            /\ IF ValueOf(lifecycle).currentState = "ACTIVE"
               THEN /\ transitionToAwaited(Pap, "KILLED", MainCaller)
                    /\ mpc' = "kill"
                    /\ UNCHANGED <<returned, exit>>
               ELSE /\ returned' = Returns(ValueOf(lifecycle).currentState,
                                           "KILLED", FALSE, "none")
                    /\ mpc' = "exited"
                    /\ ProcessExit(1, lifecycle)
                    /\ UNCHANGED <<lifecycle, heartbeat, orphans, reports>>
    /\ UNCHANGED <<paramVars, juryVars, memoryVars, queryMetrics, routerVars,
                   contextVars, now, serverVars, holders, health, spc>>

\* SIGTERM or SIGINT arrives: its shutdown handler calls lifecycle.drain()
\* and awaits it, and then the timer of five seconds.
Signal ==
    /\ mpc \notin {"idle", "start"}
    /\ exit = Undefined
    /\ Len(spc) < MaxSignals
    /\ IF canTransitionTo(ValueOf(lifecycle), "DRAINING")
       THEN /\ transitionToAwaited(Pap, "DRAINING", ShutdownCaller(Len(spc) + 1))
            /\ spc' = Append(spc, "drain")
            /\ returned' = returned
       ELSE /\ returned' = Returns(ValueOf(lifecycle).currentState, "DRAINING",
                                   FALSE, "none")
            /\ spc' = Append(spc, "grace")
            /\ UNCHANGED <<lifecycle, heartbeat, orphans, reports>>
    /\ UNCHANGED <<paramVars, juryVars, memoryVars, queryMetrics, routerVars,
                   contextVars, now, serverVars, holders, emissions, health,
                   metricsEmitter, mpc, exit>>

\* The five seconds of shutdown handler k are over: heartbeat.stop(),
\* metrics.stop(), lifecycle.terminate() and, when that has returned,
\* process.exit(0).
GraceElapsed(k) ==
    /\ k \in 1 .. Len(spc)
    /\ spc[k] = "grace"
    /\ exit = Undefined
    /\ metricsEmitter' = [metricsEmitter EXCEPT !.isRunning = FALSE]
    /\ IF canTransitionTo(ValueOf(lifecycle), "TERMINATED")
       THEN /\ transitionToAwaited(stop(Pap), "TERMINATED", ShutdownCaller(k))
            /\ spc' = [spc EXCEPT ![k] = "terminate"]
            /\ UNCHANGED <<returned, exit>>
       ELSE /\ returned' = Returns(ValueOf(lifecycle).currentState, "TERMINATED",
                                   FALSE, "none")
            /\ spc' = [spc EXCEPT ![k] = "exited"]
            /\ HeartbeatBecomes(stop(Pap))
            /\ ProcessExit(0, lifecycle)
            /\ UNCHANGED <<lifecycle, reports>>
    /\ UNCHANGED <<paramVars, juryVars, memoryVars, queryMetrics, routerVars,
                   contextVars, now, serverVars, holders, emissions, health, mpc>>

\* The report main or a shutdown handler awaits settles, and its caller goes
\* on: main to startServer, to its end or to process.exit(1), the handler to
\* its timer or to process.exit(0).
AwaitedReportSettles(i, reply) ==
    /\ i \in 1 .. Len(reports)
    /\ reports[i].caller # Caller
    /\ exit = Undefined
    /\ reports' = Without(reports, i)
    /\ returned' = Returns(reports[i].from, reports[i].to, TRUE, reply)
    /\ IF reports[i].caller = MainCaller
       THEN /\ mpc' = CASE mpc = "initialize" -> "startServer"
                        [] mpc = "activate" -> "ready"
                        [] mpc = "kill" -> "exited"
            /\ IF mpc = "kill" THEN ProcessExit(1, lifecycle) ELSE exit' = exit
            /\ spc' = spc
       ELSE LET k == reports[i].caller.handler
            IN  /\ spc' = [spc EXCEPT ![k] = IF @ = "drain" THEN "grace" ELSE "exited"]
                /\ IF spc[k] = "terminate" THEN ProcessExit(0, lifecycle)
                   ELSE exit' = exit
                /\ mpc' = mpc
    /\ UNCHANGED <<paramVars, juryVars, memoryVars, queryMetrics, routerVars,
                   contextVars, now, serverVars, holders, lifecycle, heartbeat,
                   orphans, emissions, health, metricsEmitter>>

\* main has been called.
InitMain ==
    /\ JuryIdle
    /\ MemoryEmpty
    /\ MetricsIdle
    /\ RouterIdle
    /\ ServerIdle
    /\ lifecycle = Some(NewLifecycleManager)
    /\ HeartbeatIdle
    /\ StationIdle
    /\ mpc = "start"
    /\ spc = <<>>
    /\ exit = Undefined

NextMain ==
    \/ MainInitializes
    \/ \E ok \in BOOLEAN : ServerListens(ok)
    \/ Signal
    \/ \E k \in 1 .. MaxSignals : GraceElapsed(k)
    \/ \E i \in 1 .. MaxTransitions, reply \in StationReplies :
           AwaitedReportSettles(i, reply)
    \/ \E delay \in Delays, named \in BOOLEAN :
           exit = Undefined /\ TimerFires(delay, named)
    \/ \E i \in 1 .. MaxInFlight, ok \in BOOLEAN :
           exit = Undefined /\ StationSettles(i, ok)
    \/ exit = Undefined /\ MetricsIntervalFires
    \/ \E reply \in StationReplies : exit = Undefined /\ MetricsSettles(reply)

SpecMain == InitMain /\ [][NextMain]_vars

\* ------------------------------------------------------------------ claims

HasResult == IsDefined(result)
Res == ValueOf(result)
UsableOf(rs) == SuccessfulResponses(rs)

\* C1: the reported agreementScore lies in [0,1] and the verdict matches it:
\* unanimous iff score >= 0.90, split iff 0.60 <= score < 0.90, no_consensus
\* iff score < 0.60.
C1_VerdictMatchesReportedScore ==
    HasResult =>
        /\ Res.agreementScore \in 0 .. 100
        /\ (Res.verdict = "unanimous") <=> (Res.agreementScore >= 90)
        /\ (Res.verdict = "split") <=>
               (Res.agreementScore >= 60 /\ Res.agreementScore < 90)
        /\ (Res.verdict = "no_consensus") <=> (Res.agreementScore < 60)

\* C2: in every ConsensusResult, after calculateConsensus and at the return of
\* executeJuryQuery, a dissenter is present iff the verdict is split, and a
\* present dissenter is one of the successful responses.
C2_DissenterIffSplit ==
    HasResult =>
        /\ IsDefined(Res.dissent) <=> (Res.verdict = "split")
        /\ IsDefined(Res.dissent) =>
               \E i \in 1 .. Len(responses) :
                   /\ responses[i] = ValueOf(Res.dissent)
                   /\ Usable(responses[i])

C2_Witness ==
    /\ jpc = "done"
    /\ HasResult
    /\ Res.verdict = "split"
    /\ IsDefined(Res.dissent)
    /\ Res.reflectionApplied = Some(TRUE)

\* C3 as stated: if some response has success = true, the result carries a
\* representative answer.
C3_RepresentativeIfAnySuccess ==
    HasResult =>
        ((\E i \in 1 .. Len(responses) : responses[i].success)
            => IsDefined(Res.consensusAnswer))

\* C3 amended: if some response has success = true and a non-empty answer, the
\* result carries a representative answer, and that answer is not empty.
C3_RepresentativeIfAnyUsable ==
    HasResult =>
        ((\E i \in 1 .. Len(responses) : Usable(responses[i]))
            => /\ IsDefined(Res.consensusAnswer)
               /\ ~IsEmpty(ValueOf(Res.consensusAnswer)))

C3_Witness ==
    /\ jpc = "done"
    /\ HasResult
    /\ Len(UsableOf(responses)) = 1
    /\ \E i \in 1 .. Len(responses) : ~responses[i].success
    /\ \E i \in 1 .. Len(responses) :
           responses[i].success /\ IsEmpty(responses[i].answer)
    /\ IsDefined(Res.consensusAnswer)

\* The ModelResponses of the fan-out: those already built and those returned.
FanoutResponses ==
    {ValueOf(calls[i]) : i \in {j \in 1 .. Len(calls) : IsDefined(calls[j])}}
    \cup {responses[i] : i \in 1 .. Len(responses)}

\* C4 as stated: success = false implies an empty answer and success = true
\* implies a non-empty answer.
C4_SuccessIffAnswer ==
    \A r \in FanoutResponses :
        /\ ~r.success => IsEmpty(r.answer)
        /\ r.success => ~IsEmpty(r.answer)

\* C4 amended: success = false implies an empty answer (and an error message);
\* success = true implies no error message, the answer being whatever content
\* the completion carried, the empty string included.
C4_FailureHasNoAnswer ==
    \A r \in FanoutResponses :
        /\ ~r.success => (IsEmpty(r.answer) /\ IsDefined(r.error))
        /\ r.success => ~IsDefined(r.error)

C4_Witness ==
    /\ jpc = "done"
    /\ \E r \in FanoutResponses : ~r.success /\ IsEmpty(r.answer)
    /\ \E r \in FanoutResponses : r.success /\ IsEmpty(r.answer)
    /\ \E r \in FanoutResponses : r.success /\ ~IsEmpty(r.answer)

\* C5: with fewer than two usable responses the result is no_consensus, low,
\* score 0, no dissenter; the representative is absent with no usable response
\* and is the sole usable answer with one.  The result's responses are the
\* list R itself, and every list R has a result.
C5_FewerThanTwoUsable ==
    /\ jpc \in {"reflecting", "done"} => HasResult
    /\ HasResult =>
        /\ Res.responses = responses
        /\ Len(UsableOf(responses)) < 2 =>
            /\ Res.verdict = "no_consensus"
            /\ Res.confidence = "low"
            /\ Res.agreementScore = 0
            /\ ~IsDefined(Res.dissent)
            /\ Len(UsableOf(responses)) = 0 => ~IsDefined(Res.consensusAnswer)
            /\ Len(UsableOf(responses)) = 1 =>
                   Res.consensusAnswer = Some(UsableOf(responses)[1].answer)

C5_Witness ==
    /\ jpc = "done"
    /\ HasResult
    /\ Len(responses) = 2
    /\ Len(UsableOf(responses)) = 1
    /\ Usable(responses[2])
    /\ ~responses[1].success
    /\ enableReflection

\* The mean of M[i][j] over j # i, M the similarity matrix of the usable
\* responses S.
MeanToOthers(S, i) ==
    AvgSimilarity(calculatePairwiseSimilarities(S), i, Len(S))

\* The lowest index of S among those maximising the mean to the others.
FirstMaximiser(S) ==
    CHOOSE i \in 1 .. Len(S) :
        /\ \A j \in 1 .. Len(S) : MeanToOthers(S, j) <= MeanToOthers(S, i)
        /\ \A j \in 1 .. i - 1 : MeanToOthers(S, j) < MeanToOthers(S, i)

\* The lowest index of S among those minimising the mean to the others.
FirstMinimiser(S) ==
    CHOOSE i \in 1 .. Len(S) :
        /\ \A j \in 1 .. Len(S) : MeanToOthers(S, j) >= MeanToOthers(S, i)
        /\ \A j \in 1 .. i - 1 : MeanToOthers(S, j) > MeanToOthers(S, i)

\* The representative the aggregator chose: the consensusAnswer, or the
\* originalConsensusAnswer once the reflection has replaced it.
AggregatorChoice ==
    IF IsDefined(Res.originalConsensusAnswer) THEN Res.originalConsensusAnswer
    ELSE Res.consensusAnswer

\* C6: with two or more usable responses S, the representative is the answer
\* of the lowest-index maximiser of the mean similarity to the others and,
\* when the verdict is split, the dissenter is the lowest-index minimiser.
C6_FirstIndexTieBreak ==
    (HasResult /\ Len(UsableOf(responses)) >= 2) =>
        LET S == UsableOf(responses)
        IN  /\ AggregatorChoice = Some(S[FirstMaximiser(S)].answer)
            /\ Res.verdict = "split" => Res.dissent = Some(S[FirstMinimiser(S)])

\* Three usable responses, the first a failure's neighbour: the second and
\* third tie for the maximum, and the verdict is split.
C6_Witness ==
    /\ HasResult
    /\ Len(responses) = 3
    /\ Len(UsableOf(responses)) = 3
    /\ Res.verdict = "split"
    /\ LET S == UsableOf(responses)
       IN  /\ FirstMaximiser(S) = 2
           /\ MeanToOthers(S, 3) = MeanToOthers(S, 2)
           /\ FirstMinimiser(S) = 1

\* C7: queryAllModels returns one ModelResponse per requested model, in the
\* order of the model list, whatever the order the calls settle in.
C7_OnePerModelInOrder ==
    jpc \in {"reflecting", "done"} =>
        /\ Len(responses) = Len(models)
        /\ \A i \in 1 .. Len(models) :
               responses[i].model = models[i] /\ responses[i] = ValueOf(calls[i])

C7_Witness ==
    /\ jpc = "done"
    /\ Len(models) = 3
    /\ settleOrder = <<3, 1, 2>>
    /\ ~responses[1].success
    /\ responses[3].success

\* C8: a failed call gives its own model an element with success = false, an
\* empty answer and the error message; a settled element never changes when
\* another call settles or fails; and only the missing router or the input
\* validation, never a failed call, makes executeJuryQuery reject.
C8_PerModelIsolation ==
    /\ [](/\ \A r \in FanoutResponses :
                ~r.success => (IsEmpty(r.answer) /\ IsDefined(r.error))
          /\ jpc = "threw" =>
                /\ calls = <<>>
                /\ ~routerReady \/ ValueOf(jerror).name = "GuardrailError"
          /\ jpc \in {"reflecting", "done"} =>
                \A i \in 1 .. Len(models) : responses[i] = ValueOf(calls[i]))
    /\ [][\A i \in 1 .. Len(calls) :
              IsDefined(calls[i]) => calls'[i] = calls[i]]_vars

C8_Witness ==
    /\ jpc = "done"
    /\ HasResult
    /\ Len(models) = 3
    /\ settleOrder[1] = 2
    /\ responses[2].error = Some("AuthenticationError")
    /\ responses[1].success
    /\ responses[3].error = Some("AbortError")
    /\ IsDefined(Res.consensusAnswer)

\* The HTTP attempts before the last, by position in httpLog.
EarlierAttempts == 1 .. Len(httpLog) - 1

ChatEnded == rpc \in {"returned", "threw"}

\* C9: chat makes at most 3 HTTP attempts and ends with a response or an
\* error; after the k-th failed attempt, k = 1, 2, with an error other than
\* the authentication error it waits k * 1000 ms before the next; a 401 on
\* any attempt is thrown at once, with no attempt and no wait after it.
C9_BoundedRetries ==
    /\ [](/\ Len(httpLog) <= 3
          /\ Len(delays) <= 2
          /\ \A k \in 1 .. Len(delays) :
                /\ delays[k] = k * 1000
                /\ ~RequestSucceeds(httpLog[k])
                /\ httpLog[k].status # 401
          /\ \A k \in EarlierAttempts :
                ~RequestSucceeds(httpLog[k]) /\ httpLog[k].status # 401
          /\ \A k \in EarlierAttempts : Len(delays) >= k
          /\ \A k \in 1 .. Len(httpLog) :
                httpLog[k].status = 401 =>
                    /\ rpc = "threw"
                    /\ Len(delays) = k - 1
                    /\ ValueOf(chatError).name = "AuthenticationError")
    /\ <>ChatEnded

C9_Witness ==
    /\ rpc = "threw"
    /\ Len(httpLog) = 3
    /\ delays = <<1000, 2000>>
    /\ httpLog[1].status = 500
    /\ httpLog[2].kind = "abort"
    /\ httpLog[3].status = 401

\* C10 as stated: a 402 is not retried: after a 402 the client makes no
\* further HTTP attempt and waits for none; the call fails with that error.
C10_BudgetExceededNotRetried ==
    \A k \in 1 .. Len(httpLog) :
        httpLog[k].status = 402 =>
            /\ k = Len(httpLog)
            /\ rpc = "threw"
            /\ ValueOf(chatError).name = "BudgetExceededError"

\* C10 amended: a 402 is retried like every error other than the 401: after a
\* 402 on attempt k = 1, 2 the client waits k * 1000 ms and attempts again; a
\* 402 on the third attempt ends the call with the one BudgetExceededError.
C10_BudgetExceededRetried ==
    \A k \in 1 .. Len(httpLog) :
        httpLog[k].status = 402 =>
            /\ k < 3 =>
                /\ Len(delays) >= k
                /\ delays[k] = k * 1000
                /\ rpc # "threw" \/ Len(httpLog) > k
            /\ k = 3 =>
                /\ rpc = "threw"
                /\ chatError = Some(RequestError(httpLog[k]))
                /\ ValueOf(chatError).name = "BudgetExceededError"

C10_Witness ==
    /\ rpc = "threw"
    /\ Len(httpLog) = 3
    /\ \A k \in 1 .. 3 : httpLog[k].status = 402
    /\ delays = <<1000, 2000>>

\* C11: when a 429 carries a Retry-After of s seconds, the client waits at
\* least s seconds before the next attempt of the chat call.
C11_RetryAfterHonoured ==
    \A k \in 1 .. Len(delays) :
        (httpLog[k].status = 429 /\ IsDefined(httpLog[k].retryAfter))
            => delays[k] >= ValueOf(httpLog[k].retryAfter) * 1000

\* The question holds the text of a blocked pattern, in whatever case.
HasBlockedPhrase(q) ==
    \E i \in 1 .. Len(q) :
        LowerOf(q[i].text) \in {LowerOf(pattern) : pattern \in BLOCKED_PATTERNS}

Rejected == jpc = "threw" /\ ValueOf(jerror).name = "GuardrailError"

\* executeJuryQuery has been called: an HTTP handler that refuses the request
\* does not call it.
Entered == jpc \notin {"start", "idle"}

\* C12: with the guardrails enabled, a question that matches a blocked
\* pattern in any case makes executeJuryQuery fail with a GuardrailError of
\* risk level high, and no router.chat call is issued for the request.
C12_BlockedPatternRejected ==
    (enableGuardrails /\ HasBlockedPhrase(question) /\ Entered) =>
        /\ Rejected
        /\ ValueOf(jerror).riskLevel = Some("high")
        /\ issued = <<>>
        /\ calls = <<>>

C12_Witness ==
    /\ Rejected
    /\ question = <<Word("what"), Word(" "), Word("JAILBREAK")>>
    /\ routerReady
    /\ Len(models) = 1
    /\ issued = <<>>

\* C13 as stated: an input of more than 10,000 characters is rejected, and
\* the rejection carries the risk level medium.
C13_TooLongIsMediumRisk ==
    (enableGuardrails /\ Length(question) > 10000 /\ Entered) =>
        /\ Rejected
        /\ ValueOf(inputValidation).riskLevel = "medium"

\* The question holds nothing but whitespace.
IsBlank(q) == \A i \in 1 .. Len(q) : q[i].text = " "

\* C13 amended: an input of more than 10,000 characters is rejected; the
\* rejection carries the risk level low when the input is whitespace only,
\* high when it matches a blocked pattern, and medium otherwise.
C13_TooLongRejected ==
    (enableGuardrails /\ Length(question) > 10000 /\ Entered) =>
        /\ Rejected
        /\ ~ValueOf(inputValidation).allowed
        /\ ValueOf(jerror).riskLevel = Some(ValueOf(inputValidation).riskLevel)
        /\ ValueOf(inputValidation).riskLevel =
               IF IsBlank(question) THEN "low"
               ELSE IF HasBlockedPhrase(question) THEN "high"
               ELSE "medium"

C13_Witness ==
    /\ Rejected
    /\ Length(question) = 10001
    /\ ~IsBlank(question)
    /\ ~HasBlockedPhrase(question)
    /\ ValueOf(jerror).riskLevel = Some("medium")

\* A reflection call has been issued.
ReflectionIssued == \E k \in 1 .. Len(issued) : issued[k].purpose = "reflection"

\* What calculateConsensus makes of the responses of the fan-out.
Aggregated == calculateConsensus(responses)

\* C14: the reflection model is called only when reflection is enabled, a
\* representative answer exists and the verdict is not no_consensus; in every
\* other case no reflection call is issued and qualityScore, reflectionApplied
\* and originalConsensusAnswer are unset in the returned result.
C14_ReflectionOnlyWhenApplicable ==
    /\ ReflectionIssued =>
        /\ enableReflection
        /\ HasResult
        /\ IsDefined(Aggregated.consensusAnswer)
        /\ Aggregated.verdict # "no_consensus"
    /\ (jpc = "done"
        /\ ~(/\ enableReflection
             /\ IsDefined(Aggregated.consensusAnswer)
             /\ Aggregated.verdict # "no_consensus")) =>
        /\ ~ReflectionIssued
        /\ ~IsDefined(reflection)
        /\ Res.qualityScore = Undefined
        /\ Res.reflectionApplied = Undefined
        /\ Res.originalConsensusAnswer = Undefined

\* Reflection enabled, and one usable answer: a representative without a
\* consensus.
C14_Witness ==
    /\ jpc = "done"
    /\ enableReflection
    /\ Len(UsableOf(responses)) = 1
    /\ IsDefined(Res.consensusAnswer)
    /\ Res.verdict = "no_consensus"
    /\ ~ReflectionIssued
    /\ Res.qualityScore = Undefined

ReflectionFailed ==
    IsDefined(reflectionReply) /\ ValueOf(reflectionReply) \in {"throw", "unparsable"}

\* The entry step 6 writes for the result.
EntryOf(res) ==
    [question |-> question, consensusAnswer |-> ValueOf(res.consensusAnswer),
     verdict |-> res.verdict, agreementScore |-> res.agreementScore]

\* C16: a reflection that fails in transport, whose reply is no JSON, or that
\* finds no router yields the quality score 0; executeJuryQuery still returns
\* a result, with the aggregator's representative unchanged, after the memory
\* write (memory enabled, for a session) and the metric (a collector present).
C16_ReflectionFailureNonFatal ==
    /\ \A answer \in Texts, reply \in ReflectionReplies :
           reflectOnConsensus(FALSE, answer, reply) =
               [refinedAnswer |-> answer, qualityScore |-> 0]
    /\ jpc = "reflecting" => ~IsDefined(reflectionReply)
    /\ ReflectionFailed =>
        /\ jpc = "done"
        /\ HasResult
        /\ ValueOf(reflection).qualityScore = 0
        /\ Res.consensusAnswer = Aggregated.consensusAnswer
        /\ Res.reflectionApplied = Undefined
        /\ (enableMemory /\ IsDefined(sessionId)) =>
               /\ Len(appendLog[ValueOf(sessionId)]) = 1
               /\ appendLog[ValueOf(sessionId)][1] = [id |-> 1] @@ EntryOf(Res)
               /\ ValueOf(sessionStore[ValueOf(sessionId)]).queries =
                      appendLog[ValueOf(sessionId)]
        /\ metricsReady =>
               /\ queryMetrics.totalQueries = Len(models) + 1
               /\ queryMetrics.consensusResults[Res.verdict] = 1

C16_Witness ==
    /\ jpc = "done"
    /\ IsDefined(reflectionReply) /\ ValueOf(reflectionReply) = "unparsable"
    /\ enableMemory
    /\ IsDefined(sessionId)
    /\ metricsReady
    /\ Len(appendLog["s1"]) = 1
    /\ Len(longTermMemory) = 1
    /\ queryMetrics.consensusResults.unanimous = 1

\* The last n elements of a sequence, all of it when it has fewer.
LastOf(seq, n) ==
    IF Len(seq) <= n THEN seq ELSE SubSeq(seq, Len(seq) - n + 1, Len(seq))

\* C17: a session holds at most 10 entries, and they are the (up to) 10 most
\* recently appended entries in the order of their insertion: an append to a
\* full session evicts the oldest entry.
C17_SessionKeepsLastTen ==
    \A sid \in SessionIds :
        IsDefined(sessionStore[sid]) =>
            /\ Len(ValueOf(sessionStore[sid]).queries) <= 10
            /\ ValueOf(sessionStore[sid]).queries = LastOf(appendLog[sid], 10)

C17_Witness ==
    /\ Len(appendLog["s1"]) > 10
    /\ Len(ValueOf(sessionStore["s1"]).queries) = 10
    /\ ValueOf(sessionStore["s1"]).queries[10].id = nextId - 1
    /\ ValueOf(sessionStore["s1"]).queries[1] = appendLog["s1"][Len(appendLog["s1"]) - 9]

\* C18: every entry of the long-term store has agreementScore >= 0.80 and a
\* verdict of unanimous or split.
C18_LongTermIsHighQuality ==
    \A i \in 1 .. Len(longTermMemory) :
        /\ longTermMemory[i].agreementScore >= 80
        /\ longTermMemory[i].verdict \in {"unanimous", "split"}

\* An entry at the threshold was admitted, and an entry with a high score and
\* no consensus was appended to a session.
C18_Witness ==
    /\ \E i \in 1 .. Len(longTermMemory) : longTermMemory[i].agreementScore = 80
    /\ \E sid \in SessionIds : \E k \in 1 .. Len(appendLog[sid]) :
           /\ appendLog[sid][k].verdict = "no_consensus"
           /\ appendLog[sid][k].agreementScore >= 80

\* C19: the long-term store never holds two entries with the same
\* case-folded, trimmed question.
C19_NoDuplicateQuestion ==
    Cardinality({trim(toLowerCase(longTermMemory[i].question)) :
                     i \in 1 .. Len(longTermMemory)})
        = Len(longTermMemory)

\* C20: the long-term store never holds more than 1000 entries; an admission
\* to the full store evicts the entry inserted earliest, and the entries that
\* remain keep their order of insertion.
C20_LongTermFifo ==
    /\ Len(longTermMemory) <= 1000
    /\ [i \in 1 .. Len(longTermMemory) |-> longTermMemory[i].id]
           = LastOf(admitted, 1000)

C20_Witness ==
    /\ Len(admitted) > 1000
    /\ Len(longTermMemory) = 1000
    /\ longTermMemory[1].id = admitted[Len(admitted) - 999]
    /\ longTermMemory[1000].id = nextId - 1

\* The responses of the fan-out that succeeded (success = true).
SucceededOf(rs) == SelectSeq(rs, LAMBDA r : r.success)

\* Every response of S carries the answer of the first.
IdenticalAnswers(S) == \A i \in 1 .. Len(S) : S[i].answer = S[1].answer

\* Full agreement on the first response of S.
FullAgreementOn(S) ==
    /\ Aggregated.agreementScore = 100
    /\ Aggregated.verdict = "unanimous"
    /\ Aggregated.confidence = "high"
    /\ Aggregated.consensusAnswer = Some(S[1].answer)
    /\ ~IsDefined(Aggregated.dissent)

\* C28 as stated: sim(a, a) = 1 for every text with a token, sim with the
\* empty text is 0, and two or more successful responses with identical
\* answers, whatever the answers are, give score 1.00, unanimous, high, the
\* first of them as representative and no dissenter.
C28_IdenticalAnswersUnanimous ==
    /\ \A a \in Texts :
           /\ NumTokens(Tokenize(a)) >= 1 => calculateSimilarity(a, a) = One
           /\ calculateSimilarity(a, EmptyText) = 0
           /\ calculateSimilarity(EmptyText, a) = 0
    /\ LET S == SucceededOf(responses)
       IN  Len(S) >= 2 /\ IdenticalAnswers(S) => FullAgreementOn(S)

\* C28, amended: sim(a, a) = 1 for every text with a token, sim with the
\* empty text is 0, and two or more successful responses whose identical
\* answers contain a token give score 1.00, unanimous, high, the first of
\* them as representative and no dissenter.
C28_IdenticalTokenAnswersUnanimous ==
    /\ \A a \in Texts :
           /\ NumTokens(Tokenize(a)) >= 1 => calculateSimilarity(a, a) = One
           /\ calculateSimilarity(a, EmptyText) = 0
           /\ calculateSimilarity(EmptyText, a) = 0
    /\ LET S == SucceededOf(responses)
       IN  /\ Len(S) >= 2
           /\ IdenticalAnswers(S)
           /\ NumTokens(Tokenize(S[1].answer)) >= 1
           => FullAgreementOn(S)

\* Three models gave the same two-word answer, and the result is returned.
C28_Witness ==
    /\ jpc = "done"
    /\ Len(responses) = 3
    /\ Len(SucceededOf(responses)) = 3
    /\ IdenticalAnswers(responses)
    /\ NumTokens(Tokenize(responses[1].answer)) = 2
    /\ Res.verdict = "unanimous"
    /\ Res.agreementScore = 100

\* unanimous + split + no_consensus of the verdict counters.
VerdictCounterSum ==
    queryMetrics.consensusResults.unanimous + queryMetrics.consensusResults.split
        + queryMetrics.consensusResults.no_consensus

\* C29: totalQueries (exposed as compass_queries_total) counts the queries: a
\* completed executeJuryQuery has raised it by exactly one, and the verdict
\* counters always sum to it.
C29_OneCountPerQuery ==
    /\ jpc = "done" /\ metricsReady => queryMetrics.totalQueries = 1
    /\ VerdictCounterSum = queryMetrics.totalQueries

\* The jury calls issued so far, in the order they were issued.
JuryIssued == SelectSeq(issued, LAMBDA c : c.purpose = "jury")

\* C30: while the fan-out is awaited the call of every model has been issued,
\* whichever calls have settled, and there is a result only once every call
\* has settled.
C30_ConcurrentDispatch ==
    /\ jpc = "fanout" =>
           /\ Len(JuryIssued) = Len(models)
           /\ \A i \in 1 .. Len(models) : JuryIssued[i].model = models[i]
    /\ HasResult =>
           /\ Len(calls) = Len(models)
           /\ \A i \in 1 .. Len(models) : IsDefined(calls[i])
           /\ Len(settleOrder) = Len(models)

\* The third model's call has settled with an error while the first two are
\* pending, and all three calls are out.
C30_Witness ==
    /\ jpc = "fanout"
    /\ Len(models) = 3
    /\ Len(JuryIssued) = 3
    /\ settleOrder = <<3>>
    /\ ~ValueOf(calls[3]).success
    /\ ~IsDefined(calls[1])
    /\ ~IsDefined(calls[2])

\* The state of the lifecycle manager, UNKNOWN without a manager.
LifecycleState ==
    IF IsDefined(lifecycle) THEN ValueOf(lifecycle).currentState ELSE "UNKNOWN"

\* C25: a request to POST /query or POST /api/chat that finds the lifecycle in
\* a state other than ACTIVE is answered 503, and nothing is done for it: the
\* body is not validated, the guardrails are not run, no model call is issued,
\* the memory is not touched and the request counter is not incremented.
C25_NotOperationalRefused ==
    endpoint \in HttpEndpoints /\ LifecycleState # "ACTIVE" =>
        /\ jpc # "start" =>
               response = Some([status |-> 503, code |-> "AGENT_NOT_OPERATIONAL"])
        /\ parseResult = Undefined
        /\ inputValidation = Undefined
        /\ issued = <<>>
        /\ calls = <<>>
        /\ memoryManager = Undefined
        /\ \A sid \in SessionIds : sessionStore[sid] = Undefined
        /\ memoryManagerCache = {}
        /\ longTermMemory = <<>>
        /\ requestCount = 0
        /\ queryMetrics = NoQueryMetrics

\* A chat request with a session id and a well-formed message was refused
\* while the agent was draining.
C25_Witness ==
    /\ endpoint = "/api/chat"
    /\ LifecycleState = "DRAINING"
    /\ question = PlainQuestion
    /\ sessionId = Some("s1")
    /\ enableMemory
    /\ enableGuardrails
    /\ routerReady
    /\ IsDefined(response)
    /\ ValueOf(response).status = 503
    /\ jpc = "idle"

\* The entries of session sid, none without the session.
SessionEntries(sid) ==
    IF IsDefined(sessionStore[sid]) THEN ValueOf(sessionStore[sid]).queries ELSE <<>>

RECURSIVE PairsOf(_)
\* The Q/A pairs of entries in their order, a blank line between two.
PairsOf(entries) ==
    IF Len(entries) = 0 THEN <<>>
    ELSE <<Lit("Q: "), OfQuestion(entries[1].question),
           Lit("\nA: "), OfAnswer(entries[1].consensusAnswer)>>
             \o (IF Len(entries) = 1 THEN <<>>
                 ELSE <<Lit("\n\n")>> \o PairsOf(Tail(entries)))

\* The context the caller supplied, if any.
SuppliedContext ==
    IF IsDefined(context) /\ ~IsEmptyString(ValueOf(context)) THEN context
    ELSE Undefined

\* C21: when the request runs with memory enabled and a session id whose
\* session holds n >= 1 entries, the fan-out gets 'Previous conversation
\* context:', the Q/A pairs of the last min(n, 3) entries in insertion order
\* and, after a blank line, the caller's context if any, and
\* memoryContextUsed is true; otherwise the fan-out gets the caller's context
\* and memoryContextUsed is false.  The result carries the flag.
C21_ContextInjection ==
    /\ [](HasResult => Res.memoryContextUsed = memoryContextUsed)
    /\ [][jpc = "start" /\ jpc' = "fanout" =>
            LET entries == IF enableMemory /\ IsDefined(sessionId)
                           THEN SessionEntries(ValueOf(sessionId)) ELSE <<>>
                n == Len(entries)
                m == IF n < 3 THEN n ELSE 3
            IN  IF n >= 1
                THEN /\ fanoutContext' =
                            Some(<<Lit("Previous conversation context:\n")>>
                                     \o PairsOf(SubSeq(entries, n - m + 1, n))
                                     \o (IF IsDefined(SuppliedContext)
                                         THEN <<Lit("\n\n")>> \o ValueOf(SuppliedContext)
                                         ELSE <<>>))
                     /\ memoryContextUsed'
                ELSE /\ fanoutContext' = SuppliedContext
                     /\ ~memoryContextUsed']_vars

\* The fan-out of a request with a context of its own on a session of four
\* entries is under way with the pairs of the last three.
C21_Witness ==
    /\ jpc = "fanout"
    /\ MemoryRequest
    /\ context = Some(<<Lit("be brief")>>)
    /\ Len(SessionEntries("s1")) = 4
    /\ memoryContextUsed
    /\ IsDefined(fanoutContext)
    /\ Len(ValueOf(fanoutContext)) = 17
    /\ ValueOf(fanoutContext)[3] = OfQuestion(SessionEntries("s1")[2].question)

\* C22: a request with memory enabled and a session id that ends with a
\* representative answer has, in the step it returns with, appended exactly
\* one entry to that session: the question, the final representative answer,
\* the verdict and the agreement score - whatever the other requests and the
\* cleanup did while its calls were in flight.
C22_OutcomeRecorded ==
    [][/\ jpc # "done"
       /\ jpc' = "done"
       /\ enableMemory
       /\ IsDefined(sessionId)
       /\ IsDefined(ValueOf(result').consensusAnswer)
       => LET sid == ValueOf(sessionId)
              after == IF IsDefined(sessionStore'[sid])
                       THEN ValueOf(sessionStore'[sid]).queries ELSE <<>>
          IN  /\ Len(after) >= 1
              /\ after[Len(after)].question = question
              /\ Some(after[Len(after)].consensusAnswer)
                     = ValueOf(result').consensusAnswer
              /\ after[Len(after)].verdict = ValueOf(result').verdict
              /\ after[Len(after)].agreementScore = ValueOf(result').agreementScore
              /\ appendLog'[sid] = Append(appendLog[sid], after[Len(after)])]_vars

\* The entry the long-term store takes: a high score, a verdict other than
\* no_consensus, and a question the store does not hold in any case of letters.
Admissible(entry) ==
    /\ entry.agreementScore >= LONG_TERM_QUALITY_THRESHOLD
    /\ entry.verdict # "no_consensus"
    /\ \A k \in 1 .. Len(longTermMemory) :
           toLowerCase(longTermMemory[k].question) # toLowerCase(entry.question)

\* C23: the appends of concurrent requests to a session are atomic.  No state
\* shows a session of more than 10 entries or entries out of the order of
\* their appends, and the step that appends an entry also evicts the oldest
\* entry of a full session and decides and makes the long-term insertion
\* (with the eviction of the oldest entry of a full long-term store).
C23_AtomicAppends ==
    /\ [](\A sid \in SessionIds :
             /\ Len(SessionEntries(sid)) <= MAX_SESSION_QUERIES
             /\ SessionEntries(sid)
                    = LastOf(appendLog[sid], Len(SessionEntries(sid))))
    /\ [][\A sid \in SessionIds :
             Len(appendLog'[sid]) > Len(appendLog[sid]) =>
                 LET entry == appendLog'[sid][Len(appendLog'[sid])]
                     before == SessionEntries(sid)
                     after == ValueOf(sessionStore'[sid]).queries
                 IN  /\ appendLog'[sid] = Append(appendLog[sid], entry)
                     /\ after = IF Len(before) < MAX_SESSION_QUERIES
                                THEN Append(before, entry)
                                ELSE Append(Tail(before), entry)
                     /\ longTermMemory' =
                            IF ~Admissible(entry) THEN longTermMemory
                            ELSE IF Len(longTermMemory) < LongTermCapacity
                            THEN Append(longTermMemory, entry)
                            ELSE Append(Tail(longTermMemory), entry)]_vars

\* The request and another request have both appended to a session that held
\* ten entries: it holds ten, the last two theirs.
C23_Witness ==
    /\ jpc = "done"
    /\ holders["s1"].finished = 1
    /\ Len(appendLog["s1"]) = MAX_SESSION_QUERIES + 2
    /\ Len(SessionEntries("s1")) = MAX_SESSION_QUERIES
    /\ \E k \in {MAX_SESSION_QUERIES - 1, MAX_SESSION_QUERIES} :
           SessionEntries("s1")[k].question = question
    /\ \E k \in {MAX_SESSION_QUERIES - 1, MAX_SESSION_QUERIES} :
           SessionEntries("s1")[k].question = <<Word("how")>>

\* The edges of the lifecycle.
NormativeEdges ==
    {<<"NEW", "PROVISIONED">>, <<"PROVISIONED", "ACTIVE">>, <<"ACTIVE", "DRAINING">>,
     <<"DRAINING", "ACTIVE">>, <<"DRAINING", "TERMINATED">>, <<"ACTIVE", "KILLED">>}

\* A history that leads from NEW to state along the edges.
PathTo(history, state) ==
    /\ \A k \in 1 .. Len(history) :
           /\ <<history[k].from, history[k].to>> \in NormativeEdges
           /\ history[k].from = IF k = 1 THEN "NEW" ELSE history[k - 1].to
    /\ state = IF Len(history) = 0 THEN "NEW" ELSE history[Len(history)].to

\* C24: the state of the LifecycleManager has changed only along the edges
\* NEW->PROVISIONED, PROVISIONED->ACTIVE, ACTIVE->DRAINING, DRAINING->ACTIVE,
\* DRAINING->TERMINATED and ACTIVE->KILLED, and no call changes the state
\* once it is TERMINATED or KILLED.
C24_NormativeEdgesOnly ==
    /\ [](PathTo(ValueOf(lifecycle).history, LifecycleState))
    /\ [][/\ LifecycleState' # LifecycleState =>
                 <<LifecycleState, LifecycleState'>> \in NormativeEdges
          /\ LifecycleState \in {"TERMINATED", "KILLED"} => lifecycle' = lifecycle]_vars

\* The manager has drained and terminated after it was active.
C24_Witness ==
    /\ LifecycleState = "TERMINATED"
    /\ Len(ValueOf(lifecycle).history) = 4
    /\ ValueOf(heartbeat).mode = "EMERGENCY"

C27_ThreeFailuresForceEmergency ==
    [][/\ ValueOf(heartbeat').consecutiveFailures > ValueOf(heartbeat).consecutiveFailures
       /\ ValueOf(heartbeat').consecutiveFailures >= 3
       => LET emitter == ValueOf(heartbeat')
          IN  /\ emitter.mode = "EMERGENCY"
              /\ emitter.isRunning =>
                     /\ IsDefined(emitter.intervalId)
                     /\ ValueOf(emitter.intervalId).delay = 5000
                     /\ \/ ValueOf(emitter.intervalId).pending
                        \/ \E k \in 1 .. Len(emissions') : emissions'[k].origin = "timer"
                     /\ \A d \in Delays \ {5000} : orphans'[d] <= orphans[d]]_vars

\* An active agent in mode IDLE has failed three emissions in a row: it is in
\* mode EMERGENCY with its timer at 5 s.
C27_Witness ==
    /\ LifecycleState = "ACTIVE"
    /\ ValueOf(heartbeat).consecutiveFailures = 3
    /\ ValueOf(heartbeat).mode = "EMERGENCY"
    /\ ValueOf(heartbeat).isRunning
    /\ ValueOf(heartbeat).intervalId = Some([delay |-> 5000, pending |-> TRUE])

\* The positions of a step among the steps taken.
PositionsOf(step) == {k \in 1 .. Len(steps) : steps[k] = step}

Taken(step) == PositionsOf(step) # {}

\* Every occurrence of step a comes before every occurrence of step b.
Before(a, b) == \A i \in PositionsOf(a), j \in PositionsOf(b) : i < j

\* C31: within one executeJuryQuery the validation completes before the
\* session context is read, the context is read before any model call is
\* issued, the aggregation comes after all model calls have settled, the
\* reflection call is issued only after the aggregation, the memory write
\* comes after the reflection has finished, and the metric of the query is
\* recorded after the memory write and before the return; no step is taken
\* twice or without the steps before it.
C31_StepOrder ==
    /\ \A step \in {"validation", "context", "dispatch", "aggregation",
                    "reflectionIssued", "reflectionSettled", "memoryWrite",
                    "queryMetric", "return"} : Cardinality(PositionsOf(step)) <= 1
    /\ Before("validation", "context")
    /\ Before("validation", "dispatch")
    /\ Before("context", "dispatch")
    /\ Before("dispatch", "settled")
    /\ Before("settled", "aggregation")
    /\ Before("aggregation", "reflectionIssued")
    /\ Before("reflectionIssued", "reflectionSettled")
    /\ Before("reflectionSettled", "memoryWrite")
    /\ Before("aggregation", "memoryWrite")
    /\ Before("memoryWrite", "queryMetric")
    /\ Before("aggregation", "queryMetric")
    /\ Before("queryMetric", "return")
    /\ Before("memoryWrite", "return")
    /\ Taken("context") /\ enableGuardrails => Taken("validation")
    /\ Taken("dispatch") /\ enableGuardrails => Taken("validation")
    /\ Taken("dispatch") /\ enableMemory /\ IsDefined(sessionId) => Taken("context")
    /\ issued # <<>> => Taken("dispatch")
    /\ Taken("settled") => Taken("dispatch")
    /\ Taken("aggregation") =>
           /\ Cardinality(PositionsOf("settled")) = Len(models)
           /\ \A i \in 1 .. Len(models) : IsDefined(calls[i])
    /\ Taken("reflectionIssued") => Taken("aggregation")
    /\ Taken("reflectionSettled") => Taken("reflectionIssued")
    /\ Taken("memoryWrite") =>
           /\ Taken("aggregation")
           /\ Taken("reflectionIssued") => Taken("reflectionSettled")
    /\ Taken("queryMetric") => Taken("aggregation")
    /\ Taken("return") =>
           /\ Taken("aggregation")
           /\ metricsReady => Taken("queryMetric")
           /\ Taken("reflectionIssued") => Taken("reflectionSettled")
    /\ Taken("return") <=> HasResult /\ jpc = "done"
    /\ Taken("validation") <=> IsDefined(inputValidation)
    /\ Taken("context") <=> IsDefined(memoryManager)

\* A query with guardrails, memory, reflection and metrics has returned after
\* every step.
C31_Witness ==
    /\ jpc = "done"
    /\ \A step \in {"validation", "context", "dispatch", "settled", "aggregation",
                    "reflectionIssued", "reflectionSettled", "memoryWrite",
                    "queryMetric", "return"} : Taken(step)
    /\ Len(steps) = 9 + Len(models)

\* -------------------------------------------------------------- claim C32

\* The step is a call of the memory module of that name by a caller.
CallOf(name) ==
    /\ IsDefined(call')
    /\ ValueOf(call').name = name
    /\ now' = now

\* C32: cleanupExpiredSessions removes exactly the sessions with
\* now - lastAccessedAt > SESSION_TTL and their cached memory managers,
\* returns the number of the sessions removed, and leaves the entries of
\* every other session and the long-term store unchanged.
C32_CleanupRemovesExactlyExpired ==
    [][CallOf("cleanupExpiredSessions") =>
          LET removed ==
                  {sid \in SessionIds :
                      /\ IsDefined(sessionStore[sid])
                      /\ now - ValueOf(sessionStore[sid]).lastAccessedAt
                             > SESSION_TTL_SECONDS}
          IN  /\ \A sid \in SessionIds :
                     sessionStore'[sid] = IF sid \in removed THEN Undefined
                                          ELSE sessionStore[sid]
              /\ memoryManagerCache' = memoryManagerCache \ removed
              /\ ValueOf(call').value = <<Cardinality(removed)>>
              /\ longTermMemory' = longTermMemory]_vars

\* A cleanup has removed one session and has kept the other, which has an
\* entry and is exactly the time to live old.
C32_Witness ==
    /\ IsDefined(call)
    /\ ValueOf(call).name = "cleanupExpiredSessions"
    /\ ValueOf(call).value = <<1>>
    /\ \E kept \in SessionIds :
           /\ IsDefined(sessionStore[kept])
           /\ kept \in memoryManagerCache
           /\ Len(ValueOf(sessionStore[kept]).queries) > 0
           /\ now - ValueOf(sessionStore[kept]).lastAccessedAt = SESSION_TTL_SECONDS
           /\ \A sid \in SessionIds \ {kept} :
                  ~IsDefined(sessionStore[sid]) /\ sid \notin memoryManagerCache
    /\ Len(longTermMemory) > 0

\* -------------------------------------------------------------- claim C40

\* The calls that read a session: the context, the history, and
\* getMemoryManager for a session that exists.
ReadCalls == {"getMemoryManager", "getConversationContext", "getSessionHistory"}

\* C40: lastAccessedAt of a session changes only in addToSession and in
\* clearSession of that session, which set it to the time of the call;
\* getMemoryManager on a session that exists, getConversationContext and
\* getSessionHistory leave the session as it is; so a session that was read
\* after its last append is still removed by the cleanup once that append is
\* more than SESSION_TTL ago.
C40_ReadsDoNotRefresh ==
    [][/\ \A sid \in SessionIds :
              (/\ IsDefined(sessionStore[sid])
               /\ IsDefined(sessionStore'[sid])
               /\ ValueOf(sessionStore'[sid]).lastAccessedAt
                      # ValueOf(sessionStore[sid]).lastAccessedAt)
                  => /\ CallOf("addToSession") \/ CallOf("clearSession")
                     /\ ValueOf(call').sid = sid
                     /\ ValueOf(sessionStore'[sid]).lastAccessedAt = now
       /\ \A name \in ReadCalls :
              (CallOf(name) /\ IsDefined(sessionStore[ValueOf(call').sid]))
                  => sessionStore' = sessionStore
       /\ (/\ CallOf("cleanupExpiredSessions")
           /\ IsDefined(call)
           /\ ValueOf(call).name \in ReadCalls
           /\ IsDefined(sessionStore[ValueOf(call).sid])
           /\ now - ValueOf(sessionStore[ValueOf(call).sid]).lastAccessedAt
                  > SESSION_TTL_SECONDS)
              => ~IsDefined(sessionStore'[ValueOf(call).sid])]_vars

\* A session with an entry has been read after its last append, and the
\* append is now more than the time to live ago, the read is not: the
\* session carries the time of the append.
C40_Witness ==
    /\ IsDefined(call)
    /\ ValueOf(call).name \in ReadCalls
    /\ LET sid == ValueOf(call).sid
       IN  /\ IsDefined(sessionStore[sid])
           /\ Len(ValueOf(sessionStore[sid]).queries) > 0
           /\ ValueOf(call).at > ValueOf(sessionStore[sid]).lastAccessedAt
           /\ now - ValueOf(sessionStore[sid]).lastAccessedAt > SESSION_TTL_SECONDS
           /\ now - ValueOf(call).at <= SESSION_TTL_SECONDS

\* -------------------------------------------------------------- claim C39

\* C39: when the input validation rejects executeJuryQuery with a
\* GuardrailError, the session store, the cache of the memory managers, the
\* long-term store and the query metrics are as before the call, in the step
\* that throws and ever after: no session is created, nothing is appended
\* and nothing is recorded.
C39_RejectionLeavesNoTrace ==
    [][Rejected' =>
          /\ UNCHANGED <<sessionStore, memoryManagerCache, longTermMemory>>
          /\ queryMetrics' = queryMetrics
          /\ memoryManager' = Undefined
          /\ issued' = <<>>]_vars

\* A question the validation blocks has been rejected, for a request with the
\* memory enabled for a session, the metrics collector and the router up.
C39_Witness ==
    /\ Rejected
    /\ enableMemory
    /\ IsDefined(sessionId)
    /\ metricsReady
    /\ routerReady
    /\ sessionStore = [sid \in SessionIds |-> Undefined]
    /\ queryMetrics = NoQueryMetrics

\* -------------------------------------------------------------- claim C37

\* C37: while the emitter is running, at most one heartbeat timer is
\* pending, also after setMode was called while an emission was in flight.
C37_SingleTimerChain ==
    ValueOf(heartbeat).isRunning => PendingTimers(Pap) <= 1

\* -------------------------------------------------------------- claim C38

\* C38: from the return of stop() to the next start(), no heartbeat emission
\* is started and no timer is scheduled.
C38_StoppedIsSilent ==
    [][(~ValueOf(heartbeat).isRunning /\ ~ValueOf(heartbeat').isRunning) =>
          /\ Len(emissions') <= Len(emissions)
          /\ PendingTimers(Pap') <= PendingTimers(Pap)]_vars

\* -------------------------------------------------------------- claim C33

\* The timer chain of the running emitter is alive: a timer is pending, or
\* the callback of one is awaiting its emission and will schedule the next.
ChainAlive ==
    ValueOf(heartbeat).isRunning =>
        \/ \E i \in 1 .. Len(emissions) : emissions[i].origin = "timer"
        \/ PendingTimers(Pap) > 0

\* C33: when the report of a transition settles, whatever it comes to,
\* transitionTo returns true, with the new state committed before and the
\* transition in the history; when a heartbeat emission fails, the timer
\* chain of a running emitter stays alive; when a metrics emission settles,
\* whatever it comes to, the collector runs on; and none of these steps
\* changes what the handlers of POST /query and POST /api/chat read: the
\* lifecycle state, the request and its jury query.
C33_ReportingFailuresSwallowed ==
    [][/\ Len(reports') < Len(reports) =>
              /\ IsDefined(returned')
              /\ ValueOf(returned').value
              /\ lifecycle' = lifecycle
              /\ \E k \in 1 .. Len(ValueOf(lifecycle).history) :
                     ValueOf(lifecycle).history[k] =
                         [from |-> ValueOf(returned').from,
                          to |-> ValueOf(returned').to]
       /\ ChainAlive'
       /\ (metricsEmitter.emitting /\ ~metricsEmitter'.emitting) =>
              metricsEmitter'.isRunning = metricsEmitter.isRunning
       /\ (\/ Len(reports') < Len(reports)
           \/ ValueOf(heartbeat').consecutiveFailures
                  > ValueOf(heartbeat).consecutiveFailures
           \/ (metricsEmitter.emitting /\ ~metricsEmitter'.emitting))
              => /\ isOperational(lifecycle') = isOperational(lifecycle)
                 /\ UNCHANGED <<paramVars, juryVars, serverVars, queryMetrics>>]_vars

\* The report of the activation has failed with a network error, and
\* transitionTo has returned true with the state ACTIVE; heartbeats have
\* failed, and the emitter runs with a timer pending; the collector runs.
C33_Witness ==
    /\ returned = Returns("PROVISIONED", "ACTIVE", TRUE, "error")
    /\ ValueOf(lifecycle).currentState = "ACTIVE"
    /\ ValueOf(heartbeat).consecutiveFailures >= 2
    /\ ValueOf(heartbeat).isRunning
    /\ PendingTimers(Pap) > 0
    /\ emissions = <<>>
    /\ metricsEmitter = [isRunning |-> TRUE, emitting |-> FALSE]

\* -------------------------------------------------------------- claim C34

\* C34: a transitionTo or kill that returns false was called with a target
\* that is no valid successor of the current state, and has changed neither
\* the state nor the history, has run no handler (the emitter and its timers
\* are as before) and has sent no report; a call that returns true had a
\* valid target; the state changes in no other call, so a call with an
\* invalid target, and kill() in a state other than ACTIVE, returns false.
C34_InvalidTransitionRefused ==
    [][/\ (returned' # returned /\ ~ValueOf(returned').value) =>
              /\ ValueOf(returned').from = ValueOf(lifecycle).currentState
              /\ ValueOf(returned').to
                     \notin VALID_TRANSITIONS[ValueOf(returned').from]
              /\ ValueOf(returned').reply = "none"
              /\ UNCHANGED <<lifecycle, heartbeat, orphans, emissions, reports>>
       /\ (returned' # returned /\ ValueOf(returned').value) =>
              /\ ValueOf(returned').to \in VALID_TRANSITIONS[ValueOf(returned').from]
              /\ ValueOf(returned').to = "KILLED" => ValueOf(returned').from = "ACTIVE"
       /\ lifecycle' # lifecycle =>
              /\ ValueOf(lifecycle').currentState
                     \in VALID_TRANSITIONS[ValueOf(lifecycle).currentState]
              /\ Len(reports') = Len(reports) + 1
              /\ returned' = returned]_vars

\* kill() has returned false in the state DRAINING, which the agent reached
\* by three transitions, the last of which set the emitter to EMERGENCY.
C34_Witness ==
    /\ returned = Returns("DRAINING", "KILLED", FALSE, "none")
    /\ ValueOf(lifecycle).currentState = "DRAINING"
    /\ Len(ValueOf(lifecycle).history) = 3
    /\ ValueOf(heartbeat).mode = "EMERGENCY"
    /\ reports = <<>>

\* -------------------------------------------------------------- claim C35

\* C35: when a shutdown handler ends the process, the lifecycle state is
\* TERMINATED and the lifecycle has been DRAINING before, whatever state the
\* agent was in when the signal arrived.
C35_ShutdownTerminates ==
    (IsDefined(exit) /\ ValueOf(exit).code = 0) =>
        /\ ValueOf(exit).state = "TERMINATED"
        /\ \E k \in 1 .. Len(ValueOf(lifecycle).history) :
               ValueOf(lifecycle).history[k].to = "DRAINING"

\* -------------------------------------------------------------- claim C36

\* C36: when the catch block of main ends the process after a step of the
\* start-up has failed, the lifecycle state is KILLED.
C36_StartupFailureKills ==
    (IsDefined(exit) /\ ValueOf(exit).code = 1) => ValueOf(exit).state = "KILLED"

====
